---- MODULE Spec2Model ----
(***************************************************************************)
(* Verification model of the generation task pipeline of huobao-drama:     *)
(* the task registry, the four task-based orchestrators (characters,       *)
(* storyboards, frame prompts, background extraction), the image           *)
(* generation pipeline with its poll loop, and the replace-and-resync      *)
(* persistence of storyboards and scenes.                                  *)
(*                                                                         *)
(* Conventions.  A provider call, a task registry call and a write to      *)
(* storage whose error the code inspects are nondeterministic choices      *)
(* between success and failure; a lookup of a row by its key fails exactly *)
(* when the row is absent; a write whose result the code drops succeeds.   *)
(* Registry calls can fail wherever they are made, whether or not the      *)
(* caller looks at the error.  The                                         *)
(* text a provider returns is an abstract response: a shape (how the JSON  *)
(* is wrapped) and the items it carries.  Every background goroutine is a  *)
(* process with a program counter; one action is one step between two      *)
(* accesses to shared storage.                                             *)
(***************************************************************************)
EXTENDS Integers, Sequences, FiniteSets, TLC

(* ------------------------------ bounds --------------------------------- *)

\* Submissions to the task-based orchestrators in one behaviour.
MaxTasks == 2

\* Calls of GenerateImage in one behaviour.
MaxImages == 1

\* Requests of any kind submitted in one behaviour.
MaxRequests == 1

\* Longest item list an AI response carries (characters, shots, backgrounds).
MaxItems == 2

\* Longest list of shots extractUniqueBackgrounds is given.
MaxShots == 3

(* ----------------------------- universes ------------------------------- *)

TaskIds == 1..MaxTasks

ImageJobs == 1..MaxImages

DramaIds == {1}

\* Episode 3 is an id no Episode row has.
EpisodeIds == {1, 2, 3}

\* The characters an AI response can name in a shot; 9 is no character's id.
ShotCasts == {{}, {1}, {9}}

\* Shot durations in seconds.
Durations == {-61, 1, 60, 61}

\* Character names an AI response can mention.
Names == {"A", "B"}

\* "" is "no model requested"; "custom" is an explicitly requested model.
Models == {"", "custom"}

\* How the JSON of a response is wrapped: a bare array, an object with a
\* named array field, or text that is no JSON at all.
Shapes == {"array", "object", "garbage"}

RECURSIVE SeqsUpTo(_, _)
SeqsUpTo(S, n) ==
    IF n = 0 THEN {<<>>}
    ELSE LET shorter == SeqsUpTo(S, n - 1)
         IN  shorter \cup {Append(s, x) : s \in {t \in shorter : Len(t) = n - 1}, x \in S}

Range(s) == {s[i] : i \in 1..Len(s)}

(* ------------------------------- state --------------------------------- *)

VARIABLES
    dramas,       \* ids of the Drama rows that exist
    episodes,     \* EpisodeIds -> [exists, script, duration]
    characters,   \* set of Character rows
    nextCharId,   \* next primary key of the characters table
    epChars,      \* episode_characters association: set of <<episode, character id>>
    storyboards,  \* set of Storyboard rows; chars is the storyboard_characters association
    nextSbId,     \* next primary key of the storyboards table
    imageGens,    \* set of ImageGeneration rows
    nextImageId,  \* next primary key of the image_generations table
    scenes,       \* set of Scene rows
    nextSceneId,  \* next primary key of the scenes table
    framePrompts, \* set of FramePrompt rows
    nextFpId,     \* next primary key of the frame_prompts table
    imgSubs,      \* ImageJobs -> the GenerateImage call that used this slot
    imgExec,      \* ImageJobs -> local state of ProcessImageGeneration / pollTaskStatus
    tasks,        \* TaskIds -> task record of the registry
    subs,         \* TaskIds -> the submission that used this slot, and its outcome
    exec,         \* TaskIds -> local state of the background executor
    issued        \* TaskIds -> the statuses the executor asked the registry to set

vars == <<dramas, episodes, characters, nextCharId, epChars, storyboards, nextSbId,
          imageGens, nextImageId, scenes, nextSceneId, framePrompts, nextFpId,
          imgSubs, imgExec, tasks, subs, exec, issued>>

charVars == <<characters, nextCharId, epChars>>

storyVars == <<storyboards, nextSbId>>

sceneVars == <<scenes, nextSceneId>>

frameVars == <<framePrompts, nextFpId>>

imageVars == <<imageGens, nextImageId>>

jobVars == <<imgSubs, imgExec>>

taskVars == <<tasks, subs, exec, issued>>

\* Every table.
dataVars == <<dramas, episodes, charVars, storyVars, sceneVars, frameVars, imageVars>>

(* --------------------------- task registry ----------------------------- *)

NoResult == [kind |-> "none"]

NoTask == [type |-> "none", subject |-> 0, status |-> "none", progress |-> 0,
           message |-> "", result |-> NoResult, error |-> ""]

Terminal == {"completed", "failed"}

\* create(type, subject_id): a task in pending.
CreateTask(ts, id, type, subject) ==
    [ts EXCEPT ![id] = [NoTask EXCEPT !.type = type, !.subject = subject,
                                      !.status = "pending"]]

\* update_status: a progress report; a no-op on a terminal task.
UpdateTaskStatus(ts, id, status, progress, message) ==
    IF ts[id].status \in Terminal \cup {"none"} THEN ts
    ELSE [ts EXCEPT ![id].status = status, ![id].progress = progress,
                    ![id].message = message]

\* complete(task_id, result).
UpdateTaskResult(ts, id, result) ==
    IF ts[id].status \in Terminal \cup {"none"} THEN ts
    ELSE [ts EXCEPT ![id].status = "completed", ![id].progress = 100,
                    ![id].result = result]

\* fail(task_id, error).
UpdateTaskError(ts, id, error) ==
    IF ts[id].status \in Terminal \cup {"none"} THEN ts
    ELSE [ts EXCEPT ![id].status = "failed", ![id].error = error]

\* The executor of task id asks the registry for `status`; `ok` is whether the
\* call returned nil, and newTasks what the registry holds if it did.
Report(id, status, ok, newTasks) ==
    /\ tasks' = IF ok THEN newTasks ELSE tasks
    /\ issued' = [issued EXCEPT ![id] = Append(@, status)]

(* ----------------------------- submissions ----------------------------- *)

NoSub == [op |-> "none", subject |-> 0, found |-> FALSE, err |-> "", task |-> 0]

Idle == [pc |-> "none"]

\* Requests submitted so far, accepted or rejected.
Submitted ==
    Cardinality({i \in TaskIds : subs[i].op # "none"})
        + Cardinality({j \in ImageJobs : imgSubs[j].op # "none"})

FreeSlot == IF Submitted >= MaxRequests THEN 0
            ELSE IF \E i \in TaskIds : subs[i].op = "none"
            THEN CHOOSE i \in TaskIds : subs[i].op = "none" /\ \A j \in 1..(i - 1) : subs[j].op # "none"
            ELSE 0

\* Mutation of Rejected: the error is returned but the task is created anyway.
RejectedAfterCreate(i, op, subject, found, err) ==
    /\ subs' = [subs EXCEPT ![i] = [op |-> op, subject |-> subject, found |-> found,
                                    err |-> err, task |-> 0]]
    /\ tasks' = CreateTask(tasks, i, op, subject)
    /\ UNCHANGED <<exec, issued>>

Rejected(i, op, subject, found, err) ==
    /\ subs' = [subs EXCEPT ![i] = [op |-> op, subject |-> subject, found |-> found,
                                    err |-> err, task |-> 0]]
    /\ UNCHANGED <<tasks, exec, issued>>

\* Mutation of Accepted: the submission waits for the executor's first update
\* before it returns.
AcceptedAfterStart(i, op, subject, type, local) ==
    /\ subs' = [subs EXCEPT ![i] = [op |-> op, subject |-> subject, found |-> TRUE,
                                    err |-> "", task |-> i]]
    /\ tasks' = UpdateTaskStatus(CreateTask(tasks, i, type, subject), i, "processing", 10, "start")
    /\ exec' = [exec EXCEPT ![i] = local]
    /\ UNCHANGED issued

Accepted(i, op, subject, type, local) ==
    /\ subs' = [subs EXCEPT ![i] = [op |-> op, subject |-> subject, found |-> TRUE,
                                    err |-> "", task |-> i]]
    /\ tasks' = CreateTask(tasks, i, type, subject)
    /\ exec' = [exec EXCEPT ![i] = local]
    /\ UNCHANGED issued

(* ----------------------- character generation -------------------------- *)

CharRequests ==
    [drama : DramaIds, episode : {0, 1}, outline : BOOLEAN, model : Models]

CharResponses == [shape : Shapes, names : SeqsUpTo(Names, MaxItems)]

\* The body of GenerateCharacters: the drama must exist, then the task is
\* created and the goroutine started.
SubmitCharacters(i, req) ==
    /\ UNCHANGED <<dataVars, jobVars>>
    /\ IF req.drama \notin dramas
       THEN Rejected(i, "characters", req.drama, FALSE, "drama not found")
       ELSE \E created \in BOOLEAN :
              IF created
              THEN Accepted(i, "characters", req.drama, "character_generation",
                            [pc |-> "c_start", req |-> req])
              ELSE Rejected(i, "characters", req.drama, TRUE, "create task failed")

\* GenerateCharacters, lines 44-62.
GenerateCharacters ==
    /\ FreeSlot # 0
    /\ \E req \in CharRequests : SubmitCharacters(FreeSlot, req)

\* Mutation of Fail: the failure is reported but the executor does not return.
FailAndGoOn(t, ok, message) ==
    /\ Report(t, "failed", ok, UpdateTaskStatus(tasks, t, "failed", 0, message))
    /\ exec' = exec

Fail(t, ok, message) ==
    /\ Report(t, "failed", ok, UpdateTaskStatus(tasks, t, "failed", 0, message))
    /\ exec' = [exec EXCEPT ![t] = [pc |-> "done", req |-> exec[t].req]]

\* processCharacterGeneration, lines 67-85: report processing, then resolve the outline.
CharStart(t) ==
    /\ exec[t].pc = "c_start"
    /\ \E ok \in BOOLEAN :
         Report(t, "processing", ok, UpdateTaskStatus(tasks, t, "processing", 0, "generating characters"))
    /\ exec' = [exec EXCEPT ![t].pc = "c_outline"]
    /\ UNCHANGED <<dataVars, jobVars, subs>>

CharOutline(t) ==
    /\ exec[t].pc = "c_outline"
    /\ UNCHANGED <<dataVars, jobVars, subs>>
    /\ IF exec[t].req.outline \/ exec[t].req.drama \in dramas
       THEN /\ exec' = [exec EXCEPT ![t].pc = "c_generate"]
            /\ UNCHANGED <<tasks, issued>>
       ELSE \E ok \in BOOLEAN : Fail(t, ok, "drama info missing")

\* Mutation of TextOutcomes: a failed lookup is the end of the call.
TextOutcomesNoFallback(model) ==
    {o \in [lookup : {"none", "ok", "failed"}, provider : {"specified", "default"},
            defaultCfg : BOOLEAN, err : BOOLEAN] :
        /\ (model = "") <=> (o.lookup = "none")
        /\ (o.provider = "default") <=> (o.lookup = "none")
        /\ (o.lookup = "failed") => o.err}

\* The text call every orchestrator makes (script_generation_service.go 97-108,
\* and its copies in the other services): with a model name the client of that
\* model is looked up; if the lookup fails the default client is used instead.
\* lookup: what the lookup did; provider: whose client made the call;
\* defaultCfg: whether a default configuration existed when it was needed;
\* err: whether the call returned an error.
TextOutcomes(model) ==
    {o \in [lookup : {"none", "ok", "failed"}, provider : {"specified", "default"},
            defaultCfg : BOOLEAN, err : BOOLEAN] :
        /\ (model = "") <=> (o.lookup = "none")
        /\ (o.provider = "specified") <=> (o.lookup = "ok")
        /\ (o.provider = "specified") => o.defaultCfg
        /\ ~o.defaultCfg => o.err}

\* lines 87-132: call the provider and parse the answer as a bare array.
CharGenerateFrom(t, responses) ==
    /\ exec[t].pc = "c_generate"
    /\ UNCHANGED <<dataVars, jobVars, subs>>
    /\ \E out \in TextOutcomes(exec[t].req.model), rsp \in responses :
         IF out.err
         THEN \E ok \in BOOLEAN :
                /\ Report(t, "failed", ok, UpdateTaskStatus(tasks, t, "failed", 0, "AI generation failed"))
                /\ exec' = [exec EXCEPT ![t] = [pc |-> "done", req |-> exec[t].req, call |-> out,
                                                failedAt |-> "generate"]]
         ELSE IF rsp.shape # "array"
         THEN \E ok \in BOOLEAN :
                /\ Report(t, "failed", ok, UpdateTaskStatus(tasks, t, "failed", 0, "parse failed"))
                /\ exec' = [exec EXCEPT ![t] = [pc |-> "done", req |-> exec[t].req, call |-> out,
                                                failedAt |-> "parse"]]
         ELSE /\ exec' = [exec EXCEPT ![t] = [pc |-> "c_lookup", req |-> exec[t].req, call |-> out,
                                              names |-> rsp.names, i |-> 1, chars |-> <<>>]]
              /\ UNCHANGED <<tasks, issued>>

\* Mutation of CharLookup: a name is inserted whether or not it exists.
CharLookupAlwaysNew(t) ==
    /\ exec[t].pc = "c_lookup"
    /\ UNCHANGED <<dataVars, jobVars, subs, tasks, issued>>
    /\ IF exec[t].i > Len(exec[t].names)
       THEN exec' = [exec EXCEPT ![t].pc = "c_assoc"]
       ELSE exec' = [exec EXCEPT ![t].pc = "c_create"]

CharGenerate(t) == CharGenerateFrom(t, CharResponses)

\* lines 135-144: is there a character of that name in the drama already?
CharLookup(t) ==
    /\ exec[t].pc = "c_lookup"
    /\ UNCHANGED <<dataVars, jobVars, subs, tasks, issued>>
    /\ IF exec[t].i > Len(exec[t].names)
       THEN exec' = [exec EXCEPT ![t].pc = "c_assoc"]
       ELSE LET name == exec[t].names[exec[t].i]
                have == {c \in characters : c.drama = exec[t].req.drama /\ c.name = name}
            IN  IF have # {}
                THEN LET first == CHOOSE c \in have : \A d \in have : c.id <= d.id
                     IN  exec' = [exec EXCEPT ![t].chars = Append(@, first.id),
                                              ![t].i = @ + 1]
                ELSE exec' = [exec EXCEPT ![t].pc = "c_create"]

\* lines 146-163: insert the new character; a failed insert is skipped.
CharCreate(t) ==
    /\ exec[t].pc = "c_create"
    /\ UNCHANGED <<dramas, episodes, epChars, storyVars, sceneVars, frameVars, imageVars, jobVars, subs, tasks, issued>>
    /\ \E ok \in BOOLEAN :
         IF ok
         THEN /\ characters' = characters \cup
                    {[id |-> nextCharId, drama |-> exec[t].req.drama,
                      name |-> exec[t].names[exec[t].i], by |-> t, image |-> ""]}
              /\ nextCharId' = nextCharId + 1
              /\ exec' = [exec EXCEPT ![t].chars = Append(@, nextCharId),
                                      ![t].i = @ + 1, ![t].pc = "c_lookup"]
         ELSE /\ UNCHANGED <<characters, nextCharId>>
              /\ exec' = [exec EXCEPT ![t].i = @ + 1, ![t].pc = "c_lookup"]

\* lines 166-179: attach the characters to the episode, when one was named.
CharAssociate(t) ==
    /\ exec[t].pc = "c_assoc"
    /\ UNCHANGED <<dramas, episodes, characters, nextCharId, storyVars, sceneVars, frameVars, imageVars, jobVars, subs, tasks, issued>>
    /\ exec' = [exec EXCEPT ![t].pc = "c_result"]
    /\ IF exec[t].req.episode > 0 /\ episodes[exec[t].req.episode].exists
       THEN \E ok \in BOOLEAN :
              epChars' = IF ok
                         THEN epChars \cup {<<exec[t].req.episode, c>> : c \in Range(exec[t].chars)}
                         ELSE epChars
       ELSE UNCHANGED epChars

\* lines 181-186: the result update.
CharResult(t) ==
    /\ exec[t].pc = "c_result"
    /\ UNCHANGED <<dataVars, jobVars, subs>>
    /\ \E ok \in BOOLEAN :
         Report(t, "completed", ok,
                UpdateTaskResult(tasks, t, [kind |-> "characters", characters |-> exec[t].chars,
                                            count |-> Len(exec[t].chars)]))
    /\ exec' = [exec EXCEPT ![t].pc = "done"]

(* ----------------------- storyboard generation ------------------------- *)

Shots == [duration : Durations, chars : ShotCasts]

\* What the provider answers: a bare array of shots, an object carrying the
\* shots and its own "total" field, or text no JSON can be recovered from.
StoryResponses ==
    [shape : {"array"}, shots : SeqsUpTo(Shots, MaxItems), total : {0}]
        \cup [shape : {"object"}, shots : SeqsUpTo(Shots, MaxItems), total : {0, 7}]
        \cup [shape : {"garbage"}, shots : {<<>>}, total : {0}]

RECURSIVE SumDurations(_, _)
SumDurations(shots, i) ==
    IF i > Len(shots) THEN 0 ELSE shots[i].duration + SumDurations(shots, i + 1)

\* GenerateStoryboard, lines 64-91 and 323-344: the episode (joined with its
\* drama) must exist and have a script or a description.
SubmitStoryboard(i, e, model) ==
    /\ UNCHANGED <<dataVars, jobVars>>
    /\ IF ~(episodes[e].exists /\ episodes[e].drama \in dramas)
       THEN Rejected(i, "storyboard", e, FALSE, "episode not found")
       ELSE IF ~(episodes[e].script \/ episodes[e].description)
       THEN Rejected(i, "storyboard", e, TRUE, "script content empty")
       ELSE \E created \in BOOLEAN :
              IF created
              THEN Accepted(i, "storyboard", e, "storyboard_generation",
                            [pc |-> "s_start", episode |-> e, model |-> model])
              ELSE Rejected(i, "storyboard", e, TRUE, "create task failed")

\* One call of GenerateStoryboard, for any episode id and model name.
GenerateStoryboard ==
    /\ FreeSlot # 0
    /\ \E e \in EpisodeIds, model \in Models : SubmitStoryboard(FreeSlot, e, model)

\* An early return of processStoryboardGeneration after a registry call failed.
StoryReturn(t) == exec' = [exec EXCEPT ![t].pc = "done"]

\* Mutation of StoryStart: the executor reports the start on whichever task
\* the registry holds, not on the one it was started for.
StoryStartAny(t) ==
    /\ exec[t].pc = "s_start"
    /\ UNCHANGED <<dataVars, jobVars, subs>>
    /\ \E ok \in BOOLEAN, u \in TaskIds :
         /\ tasks[u].status # "none"
         /\ Report(u, "processing", ok, UpdateTaskStatus(tasks, u, "processing", 10, "start"))
         /\ exec' = [exec EXCEPT ![t].pc = IF ok THEN "s_generate" ELSE "done"]

\* lines 349-353.
StoryStart(t) ==
    /\ exec[t].pc = "s_start"
    /\ UNCHANGED <<dataVars, jobVars, subs>>
    /\ \E ok \in BOOLEAN :
         /\ Report(t, "processing", ok, UpdateTaskStatus(tasks, t, "processing", 10, "start"))
         /\ exec' = [exec EXCEPT ![t].pc = IF ok THEN "s_generate" ELSE "done"]

\* lines 357-380, with the provider's answer drawn from responses.
StoryGenerateFrom(t, responses) ==
    /\ exec[t].pc = "s_generate"
    /\ UNCHANGED <<dataVars, jobVars, subs>>
    /\ \E out \in TextOutcomes(exec[t].model), rsp \in responses :
         IF out.err
         THEN /\ \E ok \in BOOLEAN : Report(t, "failed", ok, UpdateTaskError(tasks, t, "generation failed"))
              /\ exec' = [exec EXCEPT ![t] = [pc |-> "done", episode |-> exec[t].episode, call |-> out,
                                              failedAt |-> "generate"]]
         ELSE /\ exec' = [exec EXCEPT ![t] = [pc |-> "s_parse", episode |-> exec[t].episode,
                                              call |-> out, text |-> rsp]]
              /\ UNCHANGED <<tasks, issued>>

\* lines 357-380, the provider answering anything.
StoryGenerate(t) == StoryGenerateFrom(t, StoryResponses)

\* Mutation of ParseStoryboards: the total an object carries is kept.
ParseKeepingTotal(text) ==
    IF text.shape = "array"
    THEN [ok |-> TRUE, shots |-> text.shots, total |-> Len(text.shots)]
    ELSE IF text.shape = "object"
    THEN [ok |-> TRUE, shots |-> text.shots, total |-> text.total]
    ELSE [ok |-> FALSE, shots |-> <<>>, total |-> 0]

\* SafeParseAIJSON into []Storyboard, then into GenerateStoryboardResult
\* (lines 392-412): the shots and the total the code goes on with.  An object
\* is decoded with the total it carries, which line 410 then overwrites.
ParseStoryboards(text) ==
    IF text.shape = "array"
    THEN [ok |-> TRUE, shots |-> text.shots, total |-> Len(text.shots)]
    ELSE IF text.shape = "object"
    THEN LET decoded == [storyboards |-> text.shots, total |-> text.total]
         IN  [ok |-> TRUE, shots |-> decoded.storyboards,
              total |-> Len(decoded.storyboards)]
    ELSE [ok |-> FALSE, shots |-> <<>>, total |-> 0]

\* lines 382-430: progress 50, parse, sum the durations, progress 70.
StoryParse(t) ==
    /\ exec[t].pc = "s_parse"
    /\ UNCHANGED <<dataVars, jobVars, subs>>
    /\ \E ok50 \in BOOLEAN :
         IF ~ok50
         THEN /\ Report(t, "processing", FALSE, tasks)
              /\ StoryReturn(t)
         ELSE LET parsed == ParseStoryboards(exec[t].text)
                  after50 == UpdateTaskStatus(tasks, t, "processing", 50, "parsing")
              IN  IF ~parsed.ok
                  THEN \E ok \in BOOLEAN :
                         /\ tasks' = IF ok THEN UpdateTaskError(after50, t, "parse failed") ELSE after50
                         /\ issued' = [issued EXCEPT ![t] = @ \o <<"processing", "failed">>]
                         /\ exec' = [exec EXCEPT ![t] = [pc |-> "done", episode |-> exec[t].episode,
                                                         call |-> exec[t].call, text |-> exec[t].text]]
                  ELSE \E ok70 \in BOOLEAN :
                         /\ tasks' = IF ok70 THEN UpdateTaskStatus(after50, t, "processing", 70, "saving")
                                     ELSE after50
                         /\ issued' = [issued EXCEPT ![t] = @ \o <<"processing", "processing">>]
                         /\ exec' = [exec EXCEPT ![t] =
                                [pc |-> IF ok70 THEN "s_save" ELSE "done", episode |-> exec[t].episode,
                                 call |-> exec[t].call, text |-> exec[t].text,
                                 shots |-> parsed.shots, total |-> parsed.total,
                                 totalDuration |-> SumDurations(parsed.shots, 1),
                                 fault |-> <<"none", 0>>, saveErr |-> "", stored |-> FALSE]]

\* What saveStoryboards reads and writes.
StoryTables == [sb |-> storyboards, next |-> nextSbId, ig |-> imageGens]

\* The one step of the replace a storage failure hits, if any: only steps the
\* code gets to (lines 697, 711, 737, 853, 857) can fail.
StoryFaults(db, ep, batch, epExists, charIds) ==
    IF Len(batch) = 0 \/ ~epExists THEN {<<"none", 0>>}
    ELSE {<<"none", 0>>, <<"pluck", 0>>, <<"delete", 0>>}
           \cup {<<"clear", 0>> : r \in {r \in db.sb : r.episode = ep}}
           \cup {<<"create", i>> : i \in 1..Len(batch)}
           \cup {<<"load", i>> : i \in {j \in 1..Len(batch) : batch[j].chars # {}}}
           \cup {<<"assoc", i>> : i \in {j \in 1..Len(batch) : batch[j].chars \cap charIds # {}}}

\* lines 766-868: insert the shots in order; a shot whose characters cannot be
\* loaded or attached is kept without them (the failure is only logged).
RECURSIVE InsertShots(_, _, _, _, _, _)
InsertShots(db, ep, batch, i, fault, charIds) ==
    IF i > Len(batch) THEN [db |-> db, err |-> ""]
    ELSE IF fault = <<"create", i>> THEN [db |-> db, err |-> "create failed"]
    ELSE LET found == IF fault = <<"load", i>> THEN {} ELSE batch[i].chars \cap charIds
             attached == IF fault = <<"assoc", i>> THEN {} ELSE found
             row == [id |-> db.next, episode |-> ep, shot |-> i, duration |-> batch[i].duration,
                     chars |-> attached, composed |-> "", scene |-> 0, atmosphere |-> <<>>]
         IN  InsertShots([db EXCEPT !.sb = @ \cup {row}, !.next = @ + 1],
                         ep, batch, i + 1, fault, charIds)

\* Mutation of ReplaceStoryboards: the new shots are added to the episode's
\* shots without the old ones being deleted.
AppendStoryboards(db, ep, batch, fault, epExists, charIds) ==
    IF ~epExists THEN [db |-> db, err |-> "episode missing"]
    ELSE InsertShots(db, ep, batch, 1, fault, charIds)

\* Mutation of ReplaceStoryboards: the image generations' back-references are
\* not cleared before the delete.
ReplaceWithoutDetach(db, ep, batch, fault, epExists, charIds) ==
    IF ~epExists THEN [db |-> db, err |-> "episode missing"]
    ELSE IF fault = <<"pluck", 0>> THEN [db |-> db, err |-> "pluck failed"]
    ELSE LET deleted == [db EXCEPT !.sb = {r \in @ : r.episode # ep}]
         IN  IF fault \in {<<"clear", 0>>, <<"delete", 0>>} THEN [db |-> db, err |-> "failed"]
             ELSE InsertShots(deleted, ep, batch, 1, fault, charIds)

\* lines 709-871, the function run inside the transaction: the tables as the
\* failing step left them, and the error it returned ("" for none).
ReplaceStoryboards(db, ep, batch, fault, epExists, charIds) ==
    IF ~epExists THEN [db |-> db, err |-> "episode missing"]
    ELSE IF fault = <<"pluck", 0>> THEN [db |-> db, err |-> "pluck failed"]
    ELSE LET ids == {s.id : s \in {r \in db.sb : r.episode = ep}}
             cleared == [db EXCEPT !.ig = {IF g.storyboard \in ids
                                           THEN [g EXCEPT !.storyboard = 0] ELSE g : g \in db.ig}]
         IN  IF ids # {} /\ fault = <<"clear", 0>> THEN [db |-> db, err |-> "clear failed"]
             ELSE LET detached == IF ids # {} THEN cleared ELSE db
                      deleted == [detached EXCEPT !.sb = {r \in @ : r.episode # ep}]
                  IN  IF fault = <<"delete", 0>> THEN [db |-> detached, err |-> "delete failed"]
                      ELSE InsertShots(deleted, ep, batch, 1, fault, charIds)

\* gorm's db.Transaction: commit what the function did if it returned nil,
\* otherwise roll everything back.
Transaction(db, run) ==
    IF run.err = "" THEN run ELSE [db |-> db, err |-> run.err]

\* saveStoryboards, lines 688-873.
SaveStoryboards(db, ep, batch, fault, epExists, charIds) ==
    IF Len(batch) = 0 THEN [db |-> db, err |-> "no storyboards returned"]
    ELSE Transaction(db, ReplaceStoryboards(db, ep, batch, fault, epExists, charIds))

\* lines 432-445: save, then progress 90.
StorySave(t) ==
    /\ exec[t].pc = "s_save"
    /\ UNCHANGED <<dramas, episodes, charVars, sceneVars, frameVars, nextImageId, jobVars, subs>>
    /\ \E fault \in StoryFaults(StoryTables, exec[t].episode, exec[t].shots,
                                 episodes[exec[t].episode].exists, {c.id : c \in characters}) :
         LET saved == SaveStoryboards(StoryTables, exec[t].episode, exec[t].shots, fault,
                                      episodes[exec[t].episode].exists,
                                      {c.id : c \in characters})
         IN  /\ storyboards' = saved.db.sb
             /\ nextSbId' = saved.db.next
             /\ imageGens' = saved.db.ig
             /\ IF saved.err # ""
                THEN /\ \E ok \in BOOLEAN :
                          Report(t, "failed", ok, UpdateTaskError(tasks, t, "save failed"))
                     /\ exec' = [exec EXCEPT ![t].pc = "done", ![t].fault = fault,
                                             ![t].saveErr = saved.err]
                ELSE \E ok90 \in BOOLEAN :
                       /\ Report(t, "processing", ok90,
                                 UpdateTaskStatus(tasks, t, "processing", 90, "updating duration"))
                       /\ exec' = [exec EXCEPT ![t].pc = IF ok90 THEN "s_duration" ELSE "done",
                                               ![t].fault = fault, ![t].saveErr = ""]

\* Go's integer division, which truncates toward zero.
GoDiv(a, b) == IF a >= 0 THEN a \div b ELSE -((-a) \div b)

\* line 448: durationMinutes := (totalDuration + 59) / 60.
DurationMinutes(totalDuration) == GoDiv(totalDuration + 59, 60)

\* lines 447-474: store the episode's duration (a failure is only logged) and
\* the task's result.
StoryFinish(t) ==
    /\ exec[t].pc = "s_duration"
    /\ UNCHANGED <<dramas, charVars, storyVars, sceneVars, frameVars, imageVars, jobVars, subs>>
    /\ \E stored \in BOOLEAN :
         /\ episodes' = IF stored /\ episodes[exec[t].episode].exists
                        THEN [episodes EXCEPT ![exec[t].episode].duration =
                                   DurationMinutes(exec[t].totalDuration)]
                        ELSE episodes
         /\ exec' = [exec EXCEPT ![t].pc = "done", ![t].stored = stored]
    /\ \E ok \in BOOLEAN :
         Report(t, "completed", ok,
                UpdateTaskResult(tasks, t,
                    [kind |-> "storyboards", storyboards |-> exec[t].shots, total |-> exec[t].total,
                     total_duration |-> exec[t].totalDuration,
                     duration_minutes |-> DurationMinutes(exec[t].totalDuration)]))

(* ------------------------ frame prompt generation ----------------------- *)

FrameTypes == {"first", "key", "last", "panel", "action", "other"}

PanelCounts == {0, 2, 3, 4}

StoryboardIds == {1, 3, 5}

Separator == "\n---\n"

\* strings.Join over a list of prompts: the items with the separator between.
RECURSIVE Join(_, _)
Join(items, sep) ==
    IF Len(items) = 0 THEN <<>>
    ELSE IF Len(items) = 1 THEN <<items[1]>>
    ELSE <<items[1], sep>> \o Join(Tail(items), sep)

\* The body of GenerateFramePrompt, lines 74-93; seen is the row the
\* submitter read at line 77.
SubmitFramePrompt(i, sb, type, count, model) ==
    /\ UNCHANGED <<dataVars, jobVars>>
    /\ IF ~(\E r \in storyboards : r.id = sb)
       THEN Rejected(i, "frame_prompt", sb, FALSE, "storyboard not found")
       ELSE \E created \in BOOLEAN :
              IF created
              THEN Accepted(i, "frame_prompt", sb, "frame_prompt_generation",
                            [pc |-> "f_start", storyboard |-> sb, type |-> type,
                             count |-> count, model |-> model,
                             seen |-> CHOOSE r \in storyboards : r.id = sb])
              ELSE Rejected(i, "frame_prompt", sb, TRUE, "create task failed")

\* GenerateFramePrompt, lines 74-93.
GenerateFramePrompt ==
    /\ FreeSlot # 0
    /\ \E sb \in StoryboardIds, type \in FrameTypes, count \in PanelCounts, model \in Models :
         /\ type # "panel" => count = 0
         /\ SubmitFramePrompt(FreeSlot, sb, type, count, model)

\* line 98.
FrameStart(t) ==
    /\ exec[t].pc = "f_start"
    /\ UNCHANGED <<dataVars, jobVars, subs>>
    /\ \E ok \in BOOLEAN :
         Report(t, "processing", ok, UpdateTaskStatus(tasks, t, "processing", 0, "generating"))
    /\ exec' = [exec EXCEPT ![t].pc = "f_load"]

NoScene == [id |-> 0]

\* The names of the characters ids, in the order of their ids.
RECURSIVE CharacterNames(_)
CharacterNames(ids) ==
    IF ids = {} THEN <<>>
    ELSE LET first == CHOOSE c \in ids : \A d \in ids : c <= d
             rows == {c \in characters : c.id = first}
         IN  (IF rows = {} THEN <<>> ELSE <<(CHOOSE c \in rows : TRUE).name>>)
                 \o CharacterNames(ids \ {first})

\* buildFallbackPrompt, lines 451-474: the parts strings.Join puts together
\* with ", ": the scene's location and time, the characters' names, the
\* atmosphere, "anime style" and the suffix.
buildFallbackPrompt(sb, scene, suffix) ==
    (IF scene # NoScene THEN <<scene.location, scene.time>> ELSE <<>>)
        \o CharacterNames(sb.chars) \o sb.atmosphere \o <<"anime style", suffix>>

FallbackSuffix(kind) ==
    IF kind = "first" THEN "first frame, static shot"
    ELSE IF kind = "key" THEN "key frame, dynamic action"
    ELSE "last frame, final state"

FallbackDescription(kind) ==
    IF kind = "first" THEN <<"", "opening still">>
    ELSE IF kind = "key" THEN <<"", "peak of the action">>
    ELSE <<"", "closing picture">>

\* A frame as make([]SingleFramePrompt, n) leaves it.
EmptyFrame == [kind |-> "none", source |-> "none", prompt |-> <<>>, description |-> <<"", "">>]

\* What a provider may answer to one frame request: a prompt, or text that
\* parseFramePromptJSON cannot read.
FrameAnswers == {"p", "q", "unparsable"}

\* generateFirstFrame, generateKeyFrame, generateLastFrame (lines 203-342):
\* the provider's prompt, or the fallback when the call fails or cannot be parsed.
GenerateFrame(kind, out, answer, sb, scene) ==
    IF out.err \/ answer = "unparsable"
    THEN [kind |-> kind, source |-> "fallback",
          prompt |-> buildFallbackPrompt(sb, scene, FallbackSuffix(kind)),
          description |-> FallbackDescription(kind)]
    ELSE [kind |-> kind, source |-> "ai", prompt |-> <<answer, kind>>, description |-> <<"", "ai">>]

\* The frames generatePanelFrames (lines 345-372) and generateActionSequence
\* (lines 375-390) ask for, in order; "none" is a slot left as allocated.
FramePlan(type, count) ==
    IF type \in {"first", "key", "last"} THEN <<type>>
    ELSE IF type = "action" THEN <<"first", "key", "key", "key", "last">>
    ELSE IF count = 3 THEN <<"first", "key", "last">>
    ELSE IF count = 4 THEN <<"first", "key", "key", "last">>
    ELSE [i \in 1..count |-> "none"]

\* lines 353, 356, 359: the ordinal marker each description begins with
\* ("cell n" stands for the source's "第n格") and the text after it.
PanelLabels == <<<<"cell 1", "initial state">>, <<"cell 2", "peak of the action">>,
                 <<"cell 3", "final state">>>>

FrameLayout(type, count) ==
    IF type = "panel" THEN <<"horizontal", count>>
    ELSE IF type = "action" THEN <<"horizontal", 5>>
    ELSE <<>>

\* lines 100-159: read the storyboard again and choose what to generate.
FrameLoad(t) ==
    /\ exec[t].pc = "f_load"
    /\ UNCHANGED <<dataVars, jobVars, subs>>
    /\ IF ~(\E r \in storyboards : r.id = exec[t].storyboard)
         THEN /\ \E ok \in BOOLEAN :
                   Report(t, "failed", ok, UpdateTaskStatus(tasks, t, "failed", 0, "storyboard missing"))
              /\ exec' = [exec EXCEPT ![t].pc = "done"]
         ELSE IF exec[t].type \notin {"first", "key", "last", "panel", "action"}
         THEN /\ \E ok \in BOOLEAN :
                   Report(t, "failed", ok, UpdateTaskStatus(tasks, t, "failed", 0, "unsupported frame type"))
              /\ exec' = [exec EXCEPT ![t].pc = "done"]
         ELSE LET count == IF exec[t].type = "panel" /\ exec[t].count = 0 THEN 3 ELSE exec[t].count
                  sb == CHOOSE r \in storyboards : r.id = exec[t].storyboard
                  found == {r \in scenes : r.id = sb.scene}
                  scene == IF sb.scene = 0 \/ found = {} THEN NoScene
                           ELSE CHOOSE r \in found : TRUE
              IN  /\ exec' = [exec EXCEPT ![t] =
                         [pc |-> "f_frames", storyboard |-> exec[t].storyboard, type |-> exec[t].type,
                          count |-> count, model |-> exec[t].model, seen |-> exec[t].seen,
                          sb |-> sb, scene |-> scene,
                          plan |-> FramePlan(exec[t].type, count), frames |-> <<>>,
                          call |-> [lookup |-> "none", provider |-> "default",
                                    defaultCfg |-> TRUE, err |-> FALSE]]]
                  /\ UNCHANGED <<tasks, issued>>

\* One generate*Frame call of the switch at lines 123-154.
FrameGenerate(t) ==
    /\ exec[t].pc = "f_frames"
    /\ Len(exec[t].frames) < Len(exec[t].plan)
    /\ UNCHANGED <<dataVars, jobVars, subs, tasks, issued>>
    /\ LET i == Len(exec[t].frames) + 1
           kind == exec[t].plan[i]
       IN  IF kind = "none"
           THEN exec' = [exec EXCEPT ![t].frames = Append(@, EmptyFrame)]
           ELSE \E out \in TextOutcomes(exec[t].model), answer \in FrameAnswers :
                  LET made == GenerateFrame(kind, out, answer, exec[t].sb, exec[t].scene)
                      frame == IF exec[t].type = "panel" /\ exec[t].count = 3
                               THEN [made EXCEPT !.description = PanelLabels[i]]
                               ELSE made
                  IN  exec' = [exec EXCEPT ![t].frames = Append(@, frame), ![t].call = out]

\* saveFramePrompt, line 187: the rows of this storyboard and frame type.
OldFramePrompts(rows, sb, type) ==
    {r \in rows : r.storyboard = sb /\ r.type = type}

\* saveFramePrompt, lines 189-192: the insert; a failed one is only logged.
CreateFramePrompt(rows, id, sb, type, prompt, description, layout, created) ==
    IF created
    THEN rows \cup {[id |-> id, storyboard |-> sb, type |-> type, prompt |-> prompt,
                     description |-> description, layout |-> layout]}
    ELSE rows

\* saveFramePrompt, line 187: the first statement deletes the old rows; its
\* result is dropped.  The rows it removed are kept in "old" for the
\* properties; the code does not look at them.
FrameDelete(t) ==
    /\ exec[t].pc = "f_frames"
    /\ Len(exec[t].frames) = Len(exec[t].plan)
    /\ UNCHANGED <<dramas, episodes, charVars, storyVars, sceneVars, imageVars, jobVars,
                   tasks, subs, issued, nextFpId>>
    /\ LET old == OldFramePrompts(framePrompts, exec[t].storyboard, exec[t].type)
       IN  /\ framePrompts' = framePrompts \ old
           /\ exec' = [exec EXCEPT ![t] = [f \in DOMAIN @ \cup {"old"} |->
                                             IF f = "pc" THEN "f_insert"
                                             ELSE IF f = "old" THEN old ELSE @[f]]]

\* lines 127-166 and 189-192: insert the new row and report the result.
FrameFinish(t) ==
    /\ exec[t].pc = "f_insert"
    /\ UNCHANGED <<dramas, episodes, charVars, storyVars, sceneVars, imageVars, jobVars, subs>>
    /\ LET multi == exec[t].type \in {"panel", "action"}
           frames == exec[t].frames
           prompt == IF multi THEN Join([i \in 1..Len(frames) |-> frames[i].prompt], Separator)
                     ELSE frames[1].prompt
           description == IF exec[t].type = "panel" THEN <<"", "panel prompts">>
                          ELSE IF exec[t].type = "action" THEN <<"", "action prompts">>
                          ELSE frames[1].description
           layout == FrameLayout(exec[t].type, exec[t].count)
       IN  /\ \E created \in BOOLEAN :
                /\ framePrompts' = CreateFramePrompt(framePrompts, nextFpId, exec[t].storyboard,
                                                     exec[t].type, prompt, description, layout, created)
                /\ nextFpId' = IF created THEN nextFpId + 1 ELSE nextFpId
           /\ \E ok \in BOOLEAN :
                Report(t, "completed", ok,
                       UpdateTaskResult(tasks, t,
                           [kind |-> "frame_prompt", storyboard_id |-> exec[t].storyboard,
                            frame_type |-> exec[t].type, multi |-> multi,
                            layout |-> layout, frames |-> frames]))
           /\ exec' = [exec EXCEPT ![t].pc = "done"]

(* ------------------------- background extraction ----------------------- *)

Locations == {"L1", "L2"}

\* The provider's answer: a bare array of backgrounds, an object with a
\* "backgrounds" field, or text no JSON can be recovered from.
BgResponses ==
    [shape : {"array", "object"}, items : SeqsUpTo(Locations, MaxItems)]
        \cup [shape : {"garbage"}, items : {<<>>}]

\* ExtractBackgroundsForEpisode, lines 653-676.
ExtractBackgroundsForEpisode ==
    /\ FreeSlot # 0
    /\ \E e \in EpisodeIds, model \in Models :
         LET i == FreeSlot IN
         /\ UNCHANGED <<dataVars, jobVars>>
         /\ IF ~episodes[e].exists
            THEN Rejected(i, "backgrounds", e, FALSE, "episode not found")
            ELSE IF ~episodes[e].script
            THEN Rejected(i, "backgrounds", e, TRUE, "episode has no script content")
            ELSE \E created \in BOOLEAN :
                   IF created
                   THEN Accepted(i, "backgrounds", e, "background_extraction",
                                 [pc |-> "b_start", episode |-> e, model |-> model])
                   ELSE Rejected(i, "backgrounds", e, TRUE, "create task failed")

\* line 681.
BgStart(t) ==
    /\ exec[t].pc = "b_start"
    /\ UNCHANGED <<dataVars, jobVars, subs>>
    /\ \E ok \in BOOLEAN :
         Report(t, "processing", ok, UpdateTaskStatus(tasks, t, "processing", 0, "extracting"))
    /\ exec' = [exec EXCEPT ![t].pc = "b_extract"]

BgFail(t, message) ==
    /\ \E ok \in BOOLEAN : Report(t, "failed", ok, UpdateTaskStatus(tasks, t, "failed", 0, message))
    /\ exec' = [exec EXCEPT ![t].pc = "done"]

\* extractBackgroundsFromScript, lines 898-921: the array, or the object's
\* "backgrounds" field.
ParseBackgrounds(rsp) ==
    IF rsp.shape \in {"array", "object"}
    THEN [ok |-> TRUE, items |-> rsp.items]
    ELSE [ok |-> FALSE, items |-> <<>>]

\* lines 683-705: read the episode again and ask the provider.
BgExtract(t) ==
    /\ exec[t].pc = "b_extract"
    /\ UNCHANGED <<dataVars, jobVars, subs>>
    /\ LET e == exec[t].episode IN
         IF ~episodes[e].exists THEN BgFail(t, "episode missing")
         ELSE IF ~episodes[e].script THEN BgFail(t, "script content empty")
         ELSE \E out \in TextOutcomes(exec[t].model), rsp \in BgResponses :
                IF out.err \/ ~ParseBackgrounds(rsp).ok
                THEN /\ \E ok \in BOOLEAN :
                          Report(t, "failed", ok,
                                 UpdateTaskStatus(tasks, t, "failed", 0, "extraction failed"))
                     /\ exec' = [exec EXCEPT ![t] = [pc |-> "done", episode |-> e,
                                                     model |-> exec[t].model, call |-> out,
                                                     failedAt |-> IF out.err THEN "generate" ELSE "parse"]]
                ELSE /\ exec' = [exec EXCEPT ![t] =
                            [pc |-> "b_save", episode |-> e, model |-> exec[t].model, call |-> out,
                             backgrounds |-> ParseBackgrounds(rsp).items,
                             fault |-> <<"none", 0>>, saveErr |-> ""]]
                     /\ UNCHANGED <<tasks, issued>>

SceneTables == [sc |-> scenes, next |-> nextSceneId]

SceneFaults(batch) == {<<"none", 0>>, <<"delete", 0>>} \cup {<<"create", i>> : i \in 1..Len(batch)}

\* lines 718-740.
RECURSIVE InsertScenes(_, _, _, _, _, _)
InsertScenes(db, ep, drama, batch, i, fault) ==
    IF i > Len(batch) THEN [db |-> db, err |-> ""]
    ELSE IF fault = <<"create", i>> THEN [db |-> db, err |-> "create failed"]
    ELSE LET row == [id |-> db.next, drama |-> drama, episode |-> ep, location |-> batch[i],
                     time |-> "T1", status |-> "pending", url |-> ""]
         IN  InsertScenes([db EXCEPT !.sc = @ \cup {row}, !.next = @ + 1],
                          ep, drama, batch, i + 1, fault)

\* Mutation of ReplaceScenes: the delete removes the scenes of the whole
\* drama, not only those of the episode.
ReplaceDramaScenes(db, ep, drama, batch, fault) ==
    IF fault = <<"delete", 0>> THEN [db |-> db, err |-> "delete failed"]
    ELSE InsertScenes([db EXCEPT !.sc = {r \in @ : r.drama # drama}], ep, drama, batch, 1, fault)

\* lines 709-743, the function run inside the transaction: delete the
\* episode's scenes, then insert the extracted ones.
ReplaceScenes(db, ep, drama, batch, fault) ==
    IF fault = <<"delete", 0>> THEN [db |-> db, err |-> "delete failed"]
    ELSE InsertScenes([db EXCEPT !.sc = {r \in @ : r.episode # ep}], ep, drama, batch, 1, fault)

\* lines 707-758: replace the scenes and report.
BgSave(t) ==
    /\ exec[t].pc = "b_save"
    /\ UNCHANGED <<dramas, episodes, charVars, storyVars, frameVars, imageVars, jobVars, subs>>
    /\ \E fault \in SceneFaults(exec[t].backgrounds) :
         LET e == exec[t].episode
             saved == Transaction(SceneTables,
                                  ReplaceScenes(SceneTables, e, episodes[e].drama,
                                                exec[t].backgrounds, fault))
         IN  /\ scenes' = saved.db.sc
             /\ nextSceneId' = saved.db.next
             /\ \E ok \in BOOLEAN :
                  IF saved.err # ""
                  THEN Report(t, "failed", ok, UpdateTaskStatus(tasks, t, "failed", 0, "save failed"))
                  ELSE Report(t, "completed", ok,
                              UpdateTaskResult(tasks, t,
                                  [kind |-> "scenes", count |-> Len(exec[t].backgrounds),
                                   episode_id |-> e, drama_id |-> episodes[e].drama]))
             /\ exec' = [exec EXCEPT ![t].pc = "done", ![t].fault = fault, ![t].saveErr = saved.err]

(* ---------------------------- image generation ------------------------- *)

\* pollTaskStatus, line 245.
MaxAttempts == 60

TimeoutMessage == "timeout: image generation took too long"

\* What a request links the image to, and the image type it states.
ImageLinks ==
    {[storyboard |-> 1, scene |-> 0, character |-> 0, type |-> "storyboard"],
     [storyboard |-> 0, scene |-> 1, character |-> 0, type |-> "scene"],
     [storyboard |-> 0, scene |-> 1, character |-> 0, type |-> "storyboard"],
     [storyboard |-> 0, scene |-> 0, character |-> 1, type |-> "character"]}

\* Width and height a request asks for (0: none given).
RequestSizes == {0, 64}

\* Addresses a provider gives a picture: one fetched over http, one data URI.
ProviderUrls == {"http://u7", "data:u8"}

\* lines 276-277: the addresses that start with http:// or https://.
HttpUrls == {"http://u7"}

\* The path the local storage keeps a downloaded picture under.
LocalPath(url) == IF url = "http://u7" THEN "images/u7" ELSE "images/other"

NoCache == [outcome |-> "skipped", path |-> ""]

\* lines 276-292: the download to the local storage is skipped when the
\* service has no local storage or the address is not http(s); otherwise it
\* returns the local path, or an error.
CacheOutcomes(url) ==
    IF url \in HttpUrls
    THEN {NoCache, [outcome |-> "saved", path |-> LocalPath(url)],
          [outcome |-> "failed", path |-> ""]}
    ELSE {NoCache}

AllWritten == [sb |-> TRUE, sc |-> TRUE, ch |-> TRUE]

\* lines 320, 335 and 347: each update of a linked storyboard, scene or
\* character can return an error, which is logged.
WriteOutcomes(db, id) ==
    IF ~(\E g \in db.ig : g.id = id) THEN {AllWritten}
    ELSE LET rec == CHOOSE g \in db.ig : g.id = id
         IN  {w \in [sb : BOOLEAN, sc : BOOLEAN, ch : BOOLEAN] :
                /\ rec.storyboard = 0 => w.sb
                /\ ~(rec.scene # 0 /\ rec.type = "scene") => w.sc
                /\ rec.character = 0 => w.ch}

\* What a provider reports for a job: completed or not, an error text or
\* none, and the picture's address and size.
ImageResults ==
    [completed : {TRUE}, error : {""}, url : ProviderUrls, width : {-1, 0, 128}, height : {0, 128}]
        \cup [completed : {FALSE}, error : {"", "provider error"}, url : {""}, width : {0}, height : {0}]

FreeJob == IF Submitted >= MaxRequests THEN 0
           ELSE IF \E j \in ImageJobs : imgSubs[j].op = "none"
           THEN CHOOSE j \in ImageJobs : imgSubs[j].op = "none" /\ \A k \in 1..(j - 1) : imgSubs[k].op # "none"
           ELSE 0

\* GenerateImage, lines 89-150.
GenerateImage ==
    /\ FreeJob # 0
    /\ \E d \in DramaIds, link \in ImageLinks, model \in Models, size \in RequestSizes :
         LET j == FreeJob IN
         /\ UNCHANGED <<dramas, episodes, charVars, storyVars, sceneVars, frameVars, taskVars>>
         /\ \E created \in BOOLEAN :
              IF d \notin dramas \/ ~created
              THEN /\ imgSubs' = [imgSubs EXCEPT ![j] =
                          [op |-> "image", subject |-> d, found |-> d \in dramas,
                           err |-> IF d \in dramas THEN "failed to create record" ELSE "drama not found",
                           task |-> 0]]
                   /\ UNCHANGED <<imageVars, imgExec>>
              ELSE /\ imageGens' = imageGens \cup
                          {[id |-> nextImageId, drama |-> d, storyboard |-> link.storyboard,
                            scene |-> link.scene, character |-> link.character, type |-> link.type,
                            provider |-> "openai", model |-> model, status |-> "pending", url |-> "",
                            width |-> size, height |-> size, error |-> "", job |-> ""]}
                   /\ nextImageId' = nextImageId + 1
                   /\ imgSubs' = [imgSubs EXCEPT ![j] =
                          [op |-> "image", subject |-> d, found |-> TRUE, err |-> "",
                           task |-> nextImageId]]
                   /\ imgExec' = [imgExec EXCEPT ![j] = [pc |-> "i_start", id |-> nextImageId]]

ImageRow(id) == CHOOSE g \in imageGens : g.id = id

ImageExists(id) == \E g \in imageGens : g.id = id

\* The tables a finalize step writes.
ImageTables == [ig |-> imageGens, sb |-> storyboards, sc |-> scenes, ch |-> characters]

\* Mutation of WrittenSize: the reported dimension is always written.
WrittenAlways(reported, previous) == reported

\* lines 302-307: a dimension is written only when the result's is positive.
WrittenSize(reported, previous) == IF reported > 0 THEN reported ELSE previous

\* Mutation of completeImageGeneration: when the download succeeded the local
\* path is stored in place of the provider's address.
completeWithCachePath(db, id, result, cache, wrote) ==
    IF ~(\E g \in db.ig : g.id = id) THEN db
    ELSE LET rec == CHOOSE g \in db.ig : g.id = id
             url == IF cache.outcome = "saved" THEN cache.path ELSE result.url
         IN  [ig |-> {IF g.id = id
                      THEN [g EXCEPT !.status = "completed", !.url = url,
                                     !.width = WrittenSize(result.width, g.width),
                                     !.height = WrittenSize(result.height, g.height)]
                      ELSE g : g \in db.ig},
              sb |-> {IF rec.storyboard # 0 /\ r.id = rec.storyboard /\ wrote.sb
                      THEN [r EXCEPT !.composed = url] ELSE r : r \in db.sb},
              sc |-> {IF rec.scene # 0 /\ rec.type = "scene" /\ r.id = rec.scene /\ wrote.sc
                      THEN [r EXCEPT !.status = "generated", !.url = url] ELSE r : r \in db.sc},
              ch |-> {IF rec.character # 0 /\ r.id = rec.character /\ wrote.ch
                      THEN [r EXCEPT !.image = url] ELSE r : r \in db.ch}]

\* completeImageGeneration, lines 271-355.  cache: what the download to the
\* local storage did (its path is dropped, its error logged); wrote: which of
\* the updates of the linked rows succeeded.
completeImageGeneration(db, id, result, cache, wrote) ==
    IF ~(\E g \in db.ig : g.id = id) THEN db
    ELSE LET rec == CHOOSE g \in db.ig : g.id = id
         IN  [ig |-> {IF g.id = id
                      THEN [g EXCEPT !.status = "completed", !.url = result.url,
                                     !.width = WrittenSize(result.width, g.width),
                                     !.height = WrittenSize(result.height, g.height)]
                      ELSE g : g \in db.ig},
              sb |-> {IF rec.storyboard # 0 /\ r.id = rec.storyboard /\ wrote.sb
                      THEN [r EXCEPT !.composed = result.url] ELSE r : r \in db.sb},
              sc |-> {IF rec.scene # 0 /\ rec.type = "scene" /\ r.id = rec.scene /\ wrote.sc
                      THEN [r EXCEPT !.status = "generated", !.url = result.url] ELSE r : r \in db.sc},
              ch |-> {IF rec.character # 0 /\ r.id = rec.character /\ wrote.ch
                      THEN [r EXCEPT !.image = result.url] ELSE r : r \in db.ch}]

\* Mutation of updateImageGenError: the record is marked failed but the
\* message is not stored.
updateImageGenStatusOnly(db, id, errorMsg) ==
    IF ~(\E g \in db.ig : g.id = id) THEN db
    ELSE LET rec == CHOOSE g \in db.ig : g.id = id
         IN  [db EXCEPT !.ig = {IF g.id = id THEN [g EXCEPT !.status = "failed"]
                                ELSE g : g \in db.ig},
                        !.sc = {IF rec.scene # 0 /\ r.id = rec.scene
                                THEN [r EXCEPT !.status = "failed"] ELSE r : r \in db.sc}]

\* updateImageGenError, lines 357-377.
updateImageGenError(db, id, errorMsg) ==
    IF ~(\E g \in db.ig : g.id = id) THEN db
    ELSE LET rec == CHOOSE g \in db.ig : g.id = id
         IN  [db EXCEPT !.ig = {IF g.id = id THEN [g EXCEPT !.status = "failed", !.error = errorMsg]
                                ELSE g : g \in db.ig},
                        !.sc = {IF rec.scene # 0 /\ r.id = rec.scene
                                THEN [r EXCEPT !.status = "failed"] ELSE r : r \in db.sc}]

\* Mutation of Finalize: the finalize step is not followed by return, the poll
\* loop goes on after it.
FinalizeAndGoOn(j, db, ended, result, client, calls, how) ==
    /\ imageGens' = db.ig
    /\ storyboards' = db.sb
    /\ scenes' = db.sc
    /\ characters' = db.ch
    /\ imgExec' = [imgExec EXCEPT ![j].pc = IF @ = "i_poll" /\ imgExec[j].i + 1 < MaxAttempts
                                            THEN "i_poll" ELSE "done",
                                  ![j].i = IF imgExec[j].pc = "i_poll" THEN @ + 1 ELSE @,
                                  ![j].ended = ended, ![j].result = result,
                                  ![j].client = client, ![j].calls = calls,
                                  ![j].last = IF calls > imgExec[j].calls THEN "result" ELSE @,
                                  ![j].cache = how.cache, ![j].wrote = how.wrote,
                                  ![j].before = IF ImageExists(imgExec[j].id)
                                                THEN ImageRow(imgExec[j].id) ELSE imgExec[j].before]
    /\ UNCHANGED <<dramas, episodes, nextCharId, epChars, nextSbId, nextSceneId, frameVars,
                   nextImageId, imgSubs, taskVars>>

NoHow == [cache |-> NoCache, wrote |-> AllWritten]

\* Mutation of Finalize: the record is written with Save from the copy the
\* job loaded, which inserts it again when it has been deleted.
FinalizeWithSave(j, db, ended, result, client, calls, how) ==
    /\ imageGens' = IF ImageExists(imgExec[j].id) THEN db.ig
                    ELSE db.ig \cup {[imgExec[j].rec EXCEPT
                                         !.status = IF ended = "completed" THEN "completed"
                                                    ELSE "failed"]}
    /\ storyboards' = db.sb
    /\ scenes' = db.sc
    /\ characters' = db.ch
    /\ imgExec' = [imgExec EXCEPT ![j].pc = "done", ![j].ended = ended, ![j].result = result,
                                  ![j].client = client, ![j].calls = calls,
                                  ![j].last = IF calls > imgExec[j].calls THEN "result" ELSE @,
                                  ![j].cache = how.cache, ![j].wrote = how.wrote,
                                  ![j].before = IF ImageExists(imgExec[j].id)
                                                THEN ImageRow(imgExec[j].id) ELSE imgExec[j].before]
    /\ UNCHANGED <<dramas, episodes, nextCharId, epChars, nextSbId, nextSceneId, frameVars,
                   nextImageId, imgSubs, taskVars>>

\* Store what a finalize step left and end the job.
Finalize(j, db, ended, result, client, calls, how) ==
    /\ imageGens' = db.ig
    /\ storyboards' = db.sb
    /\ scenes' = db.sc
    /\ characters' = db.ch
    /\ imgExec' = [imgExec EXCEPT ![j].pc = "done", ![j].ended = ended, ![j].result = result,
                                  ![j].client = client, ![j].calls = calls,
                                  ![j].last = IF calls > imgExec[j].calls THEN "result" ELSE @,
                                  ![j].cache = how.cache, ![j].wrote = how.wrote,
                                  ![j].before = IF ImageExists(imgExec[j].id)
                                                THEN ImageRow(imgExec[j].id) ELSE imgExec[j].before]
    /\ UNCHANGED <<dramas, episodes, nextCharId, epChars, nextSbId, nextSceneId, frameVars,
                   nextImageId, imgSubs, taskVars>>

NoImageResult == [completed |-> FALSE, error |-> "", url |-> "", width |-> 0, height |-> 0]

NoClient == [lookup |-> "none", config |-> "unresolved", model |-> ""]

\* Mutation of ImgStart: the record is loaded but not marked processing.
ImgStartUnmarked(j) ==
    /\ imgExec[j].pc = "i_start"
    /\ ImageExists(imgExec[j].id)
    /\ UNCHANGED <<dataVars, imgSubs, taskVars>>
    /\ LET rec == ImageRow(imgExec[j].id) IN
       imgExec' = [imgExec EXCEPT ![j] = [pc |-> "i_generate", id |-> rec.id, rec |-> rec,
                      client |-> NoClient, i |-> 0, calls |-> 0, async |-> FALSE,
                      ended |-> "", result |-> NoImageResult, before |-> [id |-> 0],
                      last |-> "", cache |-> NoCache, wrote |-> AllWritten]]

\* lines 153-168: load the record, mark it processing, and mark the Scene
\* whose id equals the record's storyboard id as generating.
ImgStart(j) ==
    /\ imgExec[j].pc = "i_start"
    /\ UNCHANGED <<dramas, episodes, charVars, storyVars, nextSceneId, frameVars, nextImageId,
                   imgSubs, taskVars>>
    /\ IF ~ImageExists(imgExec[j].id)
       THEN /\ imgExec' = [imgExec EXCEPT ![j] = [pc |-> "done", id |-> imgExec[j].id,
                               rec |-> [id |-> 0], client |-> NoClient, i |-> 0, calls |-> 0,
                               async |-> FALSE, ended |-> "not loaded", result |-> NoImageResult,
                               before |-> [id |-> 0], last |-> "", cache |-> NoCache,
                               wrote |-> AllWritten]]
            /\ UNCHANGED <<imageGens, scenes>>
       ELSE LET rec == ImageRow(imgExec[j].id) IN
            /\ imageGens' = {IF g.id = rec.id THEN [g EXCEPT !.status = "processing"] ELSE g
                             : g \in imageGens}
            /\ \E marked \in BOOLEAN :
                 scenes' = IF rec.storyboard # 0 /\ marked
                           THEN {IF r.id = rec.storyboard THEN [r EXCEPT !.status = "generating"]
                                 ELSE r : r \in scenes}
                           ELSE scenes
            /\ imgExec' = [imgExec EXCEPT ![j] = [pc |-> "i_generate", id |-> rec.id, rec |-> rec,
                               client |-> NoClient, i |-> 0, calls |-> 0, async |-> FALSE,
                               ended |-> "", result |-> NoImageResult, before |-> [id |-> 0],
                               last |-> "", cache |-> NoCache, wrote |-> AllWritten]]

\* getImageClientWithModel, lines 422-447: the configuration the client is
\* built from and the model name it is given.  config "none": no client.
ImageClients(modelName) ==
    {c \in [lookup : {"none", "ok", "failed"}, config : {"specified", "default", "none"},
            model : Models \cup {"default model"}] :
        /\ (modelName = "") <=> (c.lookup = "none")
        /\ (c.config = "specified") <=> (c.lookup = "ok")
        /\ c.model = IF c.config = "none" THEN ""
                     ELSE IF modelName = "" THEN "default model" ELSE modelName}

\* Mutation of ImgGenerate: the poll loop is started whatever the first call
\* returned.
ImgGenerateThenPoll(j) ==
    /\ imgExec[j].pc = "i_generate"
    /\ \E client \in ImageClients(imgExec[j].rec.model) :
         IF client.config = "none"
         THEN Finalize(j, updateImageGenError(ImageTables, imgExec[j].id, "no image AI config found"),
                       "no client", NoImageResult, client, 0, NoHow)
         ELSE \E failed \in BOOLEAN, result \in ImageResults :
                IF failed
                THEN Finalize(j, updateImageGenError(ImageTables, imgExec[j].id, "generate failed"),
                              "call failed", NoImageResult, client, 0, NoHow)
                ELSE /\ imageGens' = {IF g.id = imgExec[j].id
                                      THEN [g EXCEPT !.status = "processing", !.job = "token"]
                                      ELSE g : g \in imageGens}
                     /\ imgExec' = [imgExec EXCEPT ![j].pc = "i_poll", ![j].client = client,
                                                   ![j].async = TRUE, ![j].result = result]
                     /\ UNCHANGED <<dramas, episodes, charVars, storyVars, sceneVars, frameVars,
                                    nextImageId, imgSubs, taskVars>>

\* lines 170-241: resolve the client, call the provider, and finalize or
\* start polling.
ImgGenerate(j) ==
    /\ imgExec[j].pc = "i_generate"
    /\ \E client \in ImageClients(imgExec[j].rec.model) :
         IF client.config = "none"
         THEN Finalize(j, updateImageGenError(ImageTables, imgExec[j].id, "no image AI config found"),
                       "no client", NoImageResult, client, 0, NoHow)
         ELSE \E failed \in BOOLEAN, result \in ImageResults :
                IF failed
                THEN Finalize(j, updateImageGenError(ImageTables, imgExec[j].id, "generate failed"),
                              "call failed", NoImageResult, client, 0, NoHow)
                ELSE IF result.completed
                THEN \E cache \in CacheOutcomes(result.url),
                        wrote \in WriteOutcomes(ImageTables, imgExec[j].id) :
                       Finalize(j, completeImageGeneration(ImageTables, imgExec[j].id, result,
                                                           cache, wrote),
                                "completed", result, client, 0,
                                [cache |-> cache, wrote |-> wrote])
                ELSE /\ imageGens' = {IF g.id = imgExec[j].id
                                      THEN [g EXCEPT !.status = "processing", !.job = "token"]
                                      ELSE g : g \in imageGens}
                     /\ imgExec' = [imgExec EXCEPT ![j].pc = "i_poll", ![j].client = client,
                                                   ![j].async = TRUE]
                     /\ UNCHANGED <<dramas, episodes, charVars, storyVars, sceneVars, frameVars,
                                    nextImageId, imgSubs, taskVars>>

\* What one GetTaskStatus call returns: a transport error, or a result.
StatusAnswers == {[err |-> TRUE, result |-> NoImageResult]} \cup [err : {FALSE}, result : ImageResults]

\* Mutation of PollContinues: one more round than the budget.
PollOneMore(i) == i <= MaxAttempts

\* line 248: the loop goes round while attempts are left.
PollContinues(i) == i < MaxAttempts

\* Mutation of StatusVerdict: a status call that returns an error ends the loop
\* as a failure.
StatusVerdictErrorEnds(answer) ==
    IF answer.err THEN "error"
    ELSE IF answer.result.completed THEN "completed"
    ELSE IF answer.result.error # "" THEN "error"
    ELSE "again"

\* lines 251-265: what the loop does with the answer of one status call.
StatusVerdict(answer) ==
    IF answer.err THEN "again"
    ELSE IF answer.result.completed THEN "completed"
    ELSE IF answer.result.error # "" THEN "error"
    ELSE "again"

\* pollTaskStatus, lines 248-266: one round of the loop, one status call.
\* last: whether the call of this round returned an error or a result.
ImgPoll(j) ==
    /\ imgExec[j].pc = "i_poll"
    /\ PollContinues(imgExec[j].i)
    /\ \E answer \in StatusAnswers :
         LET calls == imgExec[j].calls + 1
             verdict == StatusVerdict(answer)
         IN
         IF verdict = "completed"
         THEN \E cache \in CacheOutcomes(answer.result.url),
                 wrote \in WriteOutcomes(ImageTables, imgExec[j].id) :
                Finalize(j, completeImageGeneration(ImageTables, imgExec[j].id, answer.result,
                                                    cache, wrote),
                         "completed", answer.result, imgExec[j].client, calls,
                         [cache |-> cache, wrote |-> wrote])
         ELSE IF verdict = "error"
         THEN Finalize(j, updateImageGenError(ImageTables, imgExec[j].id, answer.result.error),
                       "error", answer.result, imgExec[j].client, calls, NoHow)
         ELSE /\ imgExec' = [imgExec EXCEPT ![j].i = @ + 1, ![j].calls = calls,
                                            ![j].last = IF answer.err THEN "error" ELSE "result"]
              /\ UNCHANGED <<dataVars, imgSubs, taskVars>>

\* line 268: the attempts are used up.
ImgTimeout(j) ==
    /\ imgExec[j].pc = "i_poll"
    /\ ~PollContinues(imgExec[j].i)
    /\ Finalize(j, updateImageGenError(ImageTables, imgExec[j].id, TimeoutMessage),
                "timeout", NoImageResult, imgExec[j].client, imgExec[j].calls, NoHow)

\* DeleteImageGeneration, lines 524-533, for a record a request created.
DeleteImageGeneration ==
    /\ \E g \in imageGens :
         /\ g.id >= 3
         /\ imageGens' = imageGens \ {g}
    /\ UNCHANGED <<dramas, episodes, charVars, storyVars, sceneVars, frameVars, nextImageId,
                   jobVars, taskVars>>

(* ------------------------------ environment ---------------------------- *)

\* DramaHandler.DeleteDrama: a drama can disappear while jobs are in flight.
DeleteDrama ==
    /\ \E d \in dramas : dramas' = dramas \ {d}
    /\ UNCHANGED <<episodes, charVars, storyVars, sceneVars, frameVars, imageVars, jobVars, taskVars>>

(* ---------------------------- specification ---------------------------- *)

\* Episode 1 has a script, episode 2 only a description, episode 3 does not exist.
InitialEpisodes ==
    [e \in EpisodeIds |->
        [exists |-> e # 3, drama |-> 1, script |-> e = 1, description |-> e = 2,
         duration |-> IF e = 3 THEN 0 ELSE 1]]

\* What an earlier generation left: two shots of episode 1, one of episode 2.
InitialStoryboards ==
    {[id |-> 1, episode |-> 1, shot |-> 1, duration |-> 30, chars |-> {1}, composed |-> "u1",
      scene |-> 1, atmosphere |-> <<"tense">>],
     [id |-> 2, episode |-> 1, shot |-> 2, duration |-> 30, chars |-> {}, composed |-> "",
      scene |-> 0, atmosphere |-> <<>>],
     [id |-> 3, episode |-> 2, shot |-> 1, duration |-> 60, chars |-> {1}, composed |-> "",
      scene |-> 9, atmosphere |-> <<"">>]}

\* Images an earlier run completed: one per shot of episode 1 and one for episode 2.
InitialImageGens ==
    {[id |-> 1, drama |-> 1, storyboard |-> 1, scene |-> 0, character |-> 0, type |-> "storyboard",
      provider |-> "openai", model |-> "", status |-> "completed", url |-> "u1",
      width |-> 0, height |-> 0, error |-> "", job |-> ""],
     [id |-> 2, drama |-> 1, storyboard |-> 3, scene |-> 0, character |-> 0, type |-> "storyboard",
      provider |-> "openai", model |-> "", status |-> "completed", url |-> "u1",
      width |-> 0, height |-> 0, error |-> "", job |-> ""]}

\* Scenes an earlier extraction left: one of episode 1, one of episode 2.
InitialScenes ==
    {[id |-> 1, drama |-> 1, episode |-> 1, location |-> "L1", time |-> "T1",
      status |-> "pending", url |-> ""],
     [id |-> 2, drama |-> 1, episode |-> 2, location |-> "L1", time |-> "T1",
      status |-> "pending", url |-> ""]}

InitialCharacters == {[id |-> 1, drama |-> 1, name |-> "A", by |-> 0, image |-> ""]}

InitStore ==
    /\ dramas = DramaIds
    /\ episodes = InitialEpisodes
    /\ storyboards = InitialStoryboards
    /\ nextSbId = 4
    /\ imageGens = InitialImageGens
    /\ nextImageId = 3
    /\ scenes = InitialScenes
    /\ nextSceneId = 3
    /\ framePrompts = {}
    /\ nextFpId = 1
    /\ imgSubs = [j \in ImageJobs |-> NoSub]
    /\ imgExec = [j \in ImageJobs |-> Idle]
    /\ characters = InitialCharacters
    /\ nextCharId = 2
    /\ epChars = {}
    /\ tasks = [t \in TaskIds |-> NoTask]
    /\ subs = [t \in TaskIds |-> NoSub]
    /\ issued = [t \in TaskIds |-> <<>>]

Init ==
    /\ InitStore
    /\ exec = [t \in TaskIds |-> Idle]

CharStep ==
    \E t \in TaskIds :
        \/ CharStart(t)
        \/ CharOutline(t)
        \/ CharGenerate(t)
        \/ CharLookup(t)
        \/ CharCreate(t)
        \/ CharAssociate(t)
        \/ CharResult(t)

StoryStep ==
    \E t \in TaskIds :
        \/ StoryStart(t)
        \/ StoryGenerate(t)
        \/ StoryParse(t)
        \/ StorySave(t)
        \/ StoryFinish(t)

ImageStep ==
    \E j \in ImageJobs :
        \/ ImgStart(j)
        \/ ImgGenerate(j)
        \/ ImgPoll(j)
        \/ ImgTimeout(j)

BgStep ==
    \E t \in TaskIds :
        \/ BgStart(t)
        \/ BgExtract(t)
        \/ BgSave(t)

FrameStep ==
    \E t \in TaskIds :
        \/ FrameStart(t)
        \/ FrameLoad(t)
        \/ FrameGenerate(t)
        \/ FrameDelete(t)
        \/ FrameFinish(t)

Next ==
    \/ GenerateCharacters
    \/ CharStep
    \/ GenerateStoryboard
    \/ StoryStep
    \/ GenerateFramePrompt
    \/ FrameStep
    \/ ExtractBackgroundsForEpisode
    \/ BgStep
    \/ GenerateImage
    \/ ImageStep
    \/ DeleteImageGeneration
    \/ DeleteDrama

Spec == Init /\ [][Next]_vars

(* --------- two regenerations of one episode running concurrently -------- *)

\* The episode both regenerations are for.
RegenEpisode == 1

\* What the provider answers in this specification: one shot, or two.
RegenResponses ==
    {[shape |-> "array", shots |-> <<[duration |-> 1, chars |-> {}]>>, total |-> 0],
     [shape |-> "object",
      shots |-> <<[duration |-> 60, chars |-> {1}], [duration |-> 61, chars |-> {}]>>,
      total |-> 0]}

\* GenerateStoryboard called for the same episode once per task slot, while
\* earlier executors may still be running.
RegenerateStoryboard ==
    \E i \in TaskIds :
        /\ subs[i].op = "none"
        /\ \A j \in 1..(i - 1) : subs[j].op # "none"
        /\ SubmitStoryboard(i, RegenEpisode, "")

RegenGenerate(t) == StoryGenerateFrom(t, RegenResponses)

RegenStep ==
    \E t \in TaskIds :
        \/ StoryStart(t)
        \/ RegenGenerate(t)
        \/ StoryParse(t)
        \/ StorySave(t)
        \/ StoryFinish(t)

RegenNext ==
    \/ RegenerateStoryboard
    \/ RegenStep

SpecRegen == Init /\ [][RegenNext]_vars

(* ------- a storyboard edited while its frame prompt job is pending ------ *)

\* The storyboard the frame prompt jobs of this specification are for.
SubjectStoryboard == 1

\* UpdateStoryboardCharacters: the association of the storyboard is cleared
\* (line 884) and the rows found for the requested ids are attached (891-895);
\* when the find or the append fails the association stays cleared.
UpdateStoryboardCharacters ==
    \E ids \in ShotCasts, attached \in BOOLEAN :
        /\ \E r \in storyboards : r.id = SubjectStoryboard
        /\ LET found == {c.id : c \in {x \in characters : x.id \in ids}}
               cast == IF attached THEN found ELSE {}
           IN  storyboards' = {IF r.id = SubjectStoryboard THEN [r EXCEPT !.chars = cast] ELSE r
                               : r \in storyboards}
        /\ UNCHANGED <<dramas, episodes, charVars, nextSbId, sceneVars, frameVars,
                       imageVars, jobVars, taskVars>>

\* GenerateFramePrompt for the first frame of that storyboard with the default
\* model, once per task slot.
SubjectSubmit ==
    \E i \in TaskIds :
        /\ subs[i].op = "none"
        /\ \A j \in 1..(i - 1) : subs[j].op # "none"
        /\ SubmitFramePrompt(i, SubjectStoryboard, "first", 0, "")

SubjectNext ==
    \/ SubjectSubmit
    \/ FrameStep
    \/ UpdateStoryboardCharacters

SpecSubject == Init /\ [][SubjectNext]_vars

(* ------------- the image client built from a configuration -------------- *)

\* Provider names: the ones the switch knows, the empty name, and two it
\* does not know (one differing from a known name only in case).
ProviderNames ==
    {"", "openai", "dalle", "chatfire", "volcengine", "volces", "doubao", "gemini", "google",
     "OpenAI", "stability"}

\* What GetConfigForModel / GetDefaultConfig return: an error (found FALSE)
\* or a configuration.
NoConfig == [found |-> FALSE, provider |-> "", baseURL |-> "", apiKey |-> "", models |-> <<>>]

SpecifiedConfigs ==
    {NoConfig} \cup [found : {TRUE}, provider : ProviderNames, baseURL : {"b1"}, apiKey : {"k1"},
                     models : {<<"m1">>}]

DefaultConfigs ==
    {NoConfig} \cup [found : {TRUE}, provider : ProviderNames, baseURL : {"b2"}, apiKey : {"k2"},
                     models : {<<>>, <<"d1", "d2">>}]

\* Model names of a request: none, or one.
RequestModels == {"", "m1"}

NoAdapter == [err |-> "not called", adapter |-> "", actual |-> "", baseURL |-> "", apiKey |-> "",
              model |-> "", endpoint |-> ""]

ClientError == [NoAdapter EXCEPT !.err = "no image AI config found"]

\* The constructor calls: what the adapter is given.
NewImageClient(adapter, actual, config, model, endpoint) ==
    [err |-> "", adapter |-> adapter, actual |-> actual, baseURL |-> config.baseURL,
     apiKey |-> config.apiKey, model |-> model, endpoint |-> endpoint]

\* The switch of getImageClient, lines 401-418.
ClientSwitch(actual, config, model) ==
    CASE actual \in {"openai", "dalle"} ->
             NewImageClient("OpenAI", actual, config, model, "/images/generations")
      [] actual = "chatfire" ->
             NewImageClient("OpenAI", actual, config, model, "/images/generations")
      [] actual \in {"volcengine", "volces", "doubao"} ->
             NewImageClient("VolcEngine", actual, config, model, "/images/generations")
      [] actual \in {"gemini", "google"} ->
             NewImageClient("Gemini", actual, config, model, "/v1beta/models/{model}:generateContent")
      [] OTHER ->
             NewImageClient("OpenAI", actual, config, model, "/images/generations")

\* Mutation of ClientSwitchWithModel: google is not among the Gemini names.
ClientSwitchWithoutGoogle(actual, config, model) ==
    CASE actual \in {"openai", "dalle"} ->
             NewImageClient("OpenAI", actual, config, model, "/images/generations")
      [] actual = "chatfire" ->
             NewImageClient("OpenAI", actual, config, model, "/images/generations")
      [] actual \in {"volcengine", "volces", "doubao"} ->
             NewImageClient("VolcEngine", actual, config, model, "/images/generations")
      [] actual = "gemini" ->
             NewImageClient("Gemini", actual, config, model, "/v1beta/models/{model}:generateContent")
      [] OTHER ->
             NewImageClient("OpenAI", actual, config, model, "/images/generations")

\* The switch of getImageClientWithModel, lines 459-476.
ClientSwitchWithModel(actual, config, model) ==
    CASE actual \in {"openai", "dalle"} ->
             NewImageClient("OpenAI", actual, config, model, "/images/generations")
      [] actual = "chatfire" ->
             NewImageClient("OpenAI", actual, config, model, "/images/generations")
      [] actual \in {"volcengine", "volces", "doubao"} ->
             NewImageClient("VolcEngine", actual, config, model, "/images/generations")
      [] actual \in {"gemini", "google"} ->
             NewImageClient("Gemini", actual, config, model, "/v1beta/models/{model}:generateContent")
      [] OTHER ->
             NewImageClient("OpenAI", actual, config, model, "/images/generations")

\* getImageClient, lines 379-419.
getImageClient(default, provider) ==
    IF ~default.found THEN ClientError
    ELSE LET model == IF Len(default.models) > 0 THEN default.models[1] ELSE ""
             actualProvider == IF default.provider = "" THEN provider ELSE default.provider
         IN  ClientSwitch(actualProvider, default, model)

\* Lines 422-441: the configuration of the requested model, or the default
\* one when no model is requested or the lookup fails.
ResolveConfig(specified, default, modelName) ==
    IF modelName # "" /\ specified.found THEN specified ELSE default

\* Lines 443-447: model := modelName, or the configuration's first model when
\* no model is requested.
ResolvedModel(config, modelName) ==
    IF modelName = "" /\ Len(config.models) > 0 THEN config.models[1] ELSE modelName

\* getImageClientWithModel, lines 422-477.
getImageClientWithModel(specified, default, provider, modelName) ==
    LET config == ResolveConfig(specified, default, modelName)
    IN  IF ~config.found THEN ClientError
        ELSE LET actualProvider == IF config.provider = "" THEN provider ELSE config.provider
             IN  ClientSwitchWithModel(actualProvider, config, ResolvedModel(config, modelName))

InitClients ==
    /\ InitStore
    /\ \E specified \in SpecifiedConfigs, default \in DefaultConfigs,
          provider \in ProviderNames, modelName \in RequestModels :
         exec = [t \in TaskIds |->
                   IF t = 1
                   THEN [pc |-> "k_clients", specified |-> specified, default |-> default,
                         provider |-> provider, modelName |-> modelName,
                         plain |-> NoAdapter, withModel |-> NoAdapter]
                   ELSE Idle]

\* client, err := s.getImageClient(provider).
GetImageClient ==
    /\ exec[1].pc = "k_clients"
    /\ exec[1].plain = NoAdapter
    /\ exec' = [exec EXCEPT ![1].plain = getImageClient(exec[1].default, exec[1].provider)]
    /\ UNCHANGED <<dataVars, jobVars, tasks, subs, issued>>

\* line 170: client, err := s.getImageClientWithModel(provider, model).
GetImageClientWithModel ==
    /\ exec[1].pc = "k_clients"
    /\ exec[1].withModel = NoAdapter
    /\ exec' = [exec EXCEPT ![1].withModel =
                   getImageClientWithModel(exec[1].specified, exec[1].default,
                                           exec[1].provider, exec[1].modelName)]
    /\ UNCHANGED <<dataVars, jobVars, tasks, subs, issued>>

ClientsNext ==
    \/ GetImageClient
    \/ GetImageClientWithModel

SpecClients == InitClients /\ [][ClientsNext]_vars

(* ---------- executors of different orchestrators side by side ----------- *)

\* Storyboard generations of one episode and frame prompt generations of one
\* of its storyboards, one submission per task slot, with the storyboard
\* edited at any moment.
OwnersNext ==
    \/ RegenNext
    \/ SubjectNext

SpecOwners == Init /\ [][OwnersNext]_vars

(* --------- character generations of one drama running concurrently ------ *)

\* What the provider answers in this specification: lists that share the
\* new name B.
CastResponses ==
    {[shape |-> "array", names |-> <<"B">>], [shape |-> "array", names |-> <<"A", "B">>]}

\* GenerateCharacters for drama 1 with an outline, no episode and the default
\* model, once per task slot.
CastSubmit ==
    \E i \in TaskIds :
        /\ subs[i].op = "none"
        /\ \A j \in 1..(i - 1) : subs[j].op # "none"
        /\ SubmitCharacters(i, [drama |-> 1, episode |-> 0, outline |-> TRUE, model |-> ""])

CastGenerate(t) == CharGenerateFrom(t, CastResponses)

CastStep ==
    \E t \in TaskIds :
        \/ CharStart(t)
        \/ CharOutline(t)
        \/ CastGenerate(t)
        \/ CharLookup(t)
        \/ CharCreate(t)
        \/ CharAssociate(t)
        \/ CharResult(t)

CastNext ==
    \/ CastSubmit
    \/ CastStep

SpecCast == Init /\ [][CastNext]_vars

(* ------------- extractUniqueBackgrounds over a list of shots ------------ *)

\* A *string field of a shot: <<>> for nil, <<s>> for a string s.
ShotLocations == {<<>>, <<"a">>, <<"a|b">>}

ShotTimes == {<<>>, <<"c">>, <<"b|c">>}

\* The shots of an episode as they are read: the ids are those of the rows,
\* all different; here the shot at place i has id i.
ShotLists ==
    {[i \in 1..Len(l) |-> [id |-> i, location |-> l[i].location, time |-> l[i].time]] :
        l \in SeqsUpTo([location : ShotLocations, time : ShotTimes], MaxShots)}

\* line 1116: key := *scene.Location + "|" + *scene.Time.
BackgroundKey(scene) == scene.location[1] \o "|" \o scene.time[1]

\* lines 1110-1136: the map after the shots from place i on have been added.
RECURSIVE BackgroundMap(_, _, _)
BackgroundMap(list, i, map) ==
    IF i > Len(list) THEN map
    ELSE LET scene == list[i] IN
         IF scene.location = <<>> \/ scene.time = <<>>
         THEN BackgroundMap(list, i + 1, map)
         ELSE LET key == BackgroundKey(scene) IN
              IF key \in DOMAIN map
              THEN BackgroundMap(list, i + 1,
                       [map EXCEPT ![key].SceneIDs = Append(@, scene.id),
                                   ![key].StoryboardCount = @ + 1])
              ELSE BackgroundMap(list, i + 1,
                       [k \in DOMAIN map \cup {key} |->
                           IF k = key
                           THEN [Location |-> scene.location[1], Time |-> scene.time[1],
                                 SceneIDs |-> <<scene.id>>, StoryboardCount |-> 1]
                           ELSE map[k]])

\* extractUniqueBackgrounds, lines 1107-1145: the backgrounds of the map, in
\* no particular order.
extractUniqueBackgrounds(list) ==
    LET map == BackgroundMap(list, 1, <<>>)
    IN  {map[k] : k \in DOMAIN map}

\* A caller holds a list of shots.
InitBackgrounds ==
    /\ InitStore
    /\ \E list \in ShotLists :
         exec = [t \in TaskIds |-> IF t = 1 THEN [pc |-> "x_scenes", scenes |-> list]
                                   ELSE Idle]

\* line 592: backgrounds := s.extractUniqueBackgrounds(scenes).
ExtractUnique ==
    /\ exec[1].pc = "x_scenes"
    /\ exec' = [exec EXCEPT ![1] = [pc |-> "x_done", scenes |-> exec[1].scenes,
                                    backgrounds |-> extractUniqueBackgrounds(exec[1].scenes)]]
    /\ UNCHANGED <<dataVars, jobVars, tasks, subs, issued>>

SpecBackgrounds == InitBackgrounds /\ [][ExtractUnique]_vars

(* ------------------------------ properties ------------------------------ *)

TaskOps == {"characters", "storyboard", "frame_prompt", "backgrounds"}

SubmitErrors ==
    {"", "drama not found", "episode not found", "script content empty", "storyboard not found",
     "episode has no script content", "create task failed", "failed to create record"}

\* C1: the updates an executor issues to the registry start with processing,
\* and a terminal status (completed or failed) is issued at most once and only
\* as the last update: nothing terminal before processing, nothing at all
\* after the terminal one.
C1_StatusOrder ==
    \A t \in TaskIds :
        LET log == issued[t] IN
        Len(log) > 0 =>
            /\ log[1] = "processing"
            /\ \A k \in 1..Len(log) : log[k] \in Terminal => k = Len(log)

\* A storyboard executor that reported processing four times and then completed.
C1_Witness ==
    \E t \in TaskIds :
        /\ subs[t].op = "storyboard"
        /\ issued[t] = <<"processing", "processing", "processing", "processing", "completed">>
        /\ tasks[t].status = "completed"

\* C2: when a background executor has returned, its task is not in processing.
C2_NoTaskLeftProcessing ==
    \A t \in TaskIds :
        (subs[t].op \in TaskOps /\ exec[t].pc = "done") => tasks[t].status # "processing"

\* C3: a request whose subject does not exist is answered with an error, and
\* for it no task exists, no executor was started and no update was issued.
C3_MissingSubject ==
    \A i \in TaskIds :
        (subs[i].op \in TaskOps /\ ~subs[i].found) =>
            /\ subs[i].err # ""
            /\ subs[i].task = 0
            /\ tasks[i] = NoTask
            /\ exec[i] = Idle
            /\ issued[i] = <<>>

\* A frame prompt request for a storyboard that does not exist was rejected.
C3_Witness ==
    \E i \in TaskIds :
        /\ subs[i].op = "frame_prompt"
        /\ ~subs[i].found
        /\ subs[i].err = "storyboard not found"

\* C4: after a storyboard regeneration whose parsed batch was empty, the
\* storyboards, their characters and the image generations' back-references
\* are as before, and the task is failed.
C4_EmptyBatchGuard ==
    \A t \in TaskIds :
        (/\ subs[t].op = "storyboard"
         /\ exec[t].pc = "done"
         /\ "shots" \in DOMAIN exec[t]
         /\ exec[t].shots = <<>>) =>
            /\ storyboards = InitialStoryboards
            /\ imageGens = InitialImageGens
            /\ tasks[t].status = "failed"

\* C5: after a background extraction that received an empty list, the
\* episode's scenes are as before.
C5_EmptySceneGuard ==
    \A t \in TaskIds :
        (/\ subs[t].op = "backgrounds"
         /\ exec[t].pc = "done"
         /\ "backgrounds" \in DOMAIN exec[t]
         /\ exec[t].backgrounds = <<>>) =>
            scenes = InitialScenes

\* C6: when a step of saveStoryboards failed, the storyboards and the image
\* generations are as before the call and the call returned an error.
C6_SaveAllOrNothing ==
    \A t \in TaskIds :
        (/\ subs[t].op = "storyboard"
         /\ exec[t].pc \in {"s_duration", "done"}
         /\ "fault" \in DOMAIN exec[t]
         /\ exec[t].fault[1] # "none") =>
            /\ storyboards = InitialStoryboards
            /\ imageGens = InitialImageGens
            /\ exec[t].saveErr # ""

\* C7: the poll loop never makes more than MaxAttempts status calls, and when
\* it ends because no call reported completion or an error it has made exactly
\* MaxAttempts calls and the image record (if it still exists) is failed with
\* the timeout message.
C7_PollTimeout ==
    \A j \in ImageJobs :
        /\ imgExec[j].pc = "i_poll" =>
              /\ imgExec[j].calls <= MaxAttempts
              /\ imgExec[j].calls = imgExec[j].i
        /\ (imgExec[j].pc = "done" /\ imgExec[j].ended = "timeout") =>
              /\ imgExec[j].calls = MaxAttempts
              /\ ImageExists(imgExec[j].id) =>
                    /\ ImageRow(imgExec[j].id).status = "failed"
                    /\ ImageRow(imgExec[j].id).error = TimeoutMessage

\* A poll loop that ran out of attempts and left its record failed.
C7_Witness ==
    \E j \in ImageJobs :
        /\ imgExec[j].pc = "done"
        /\ imgExec[j].ended = "timeout"
        /\ imgExec[j].calls = 60
        /\ ImageExists(imgExec[j].id)
        /\ ImageRow(imgExec[j].id).status = "failed"

\* C8: a generation whose first call was not completed is finished by a status
\* call (at least one was made); the record (if it still exists) is then
\* completed, its url is the one the status call reported, and its width and
\* height are the reported ones where those are positive and the record's
\* previous ones otherwise.
C8_AsyncCompletion ==
    \A j \in ImageJobs :
        (imgExec[j].pc = "done" /\ imgExec[j].async /\ imgExec[j].ended = "completed") =>
            /\ imgExec[j].calls >= 1
            /\ ImageExists(imgExec[j].id) =>
                 LET row == ImageRow(imgExec[j].id)
                     result == imgExec[j].result
                     before == imgExec[j].before
                 IN  /\ row.status = "completed"
                     /\ row.url = result.url
                     /\ row.width = (IF result.width > 0 THEN result.width ELSE before.width)
                     /\ row.height = (IF result.height > 0 THEN result.height ELSE before.height)

\* A polled generation completed with a result that carries a height but no
\* width: the record keeps the width it was requested with.
C8_Witness ==
    \E j \in ImageJobs :
        /\ imgExec[j].pc = "done"
        /\ imgExec[j].async
        /\ imgExec[j].ended = "completed"
        /\ imgExec[j].calls > 1
        /\ imgExec[j].result.width = 0
        /\ imgExec[j].result.height = 128
        /\ ImageExists(imgExec[j].id)
        /\ ImageRow(imgExec[j].id).width = 64
        /\ ImageRow(imgExec[j].id).height = 128

\* C9: a panel request of count 3 whose storyboard was read ends with a
\* completed task whose result has 3 frames, first, key, last, with the
\* descriptions' markers cell 1, cell 2, cell 3, and the stored prompt is the
\* three prompts joined by the separator.
C9_PanelOfThree ==
    \A t \in TaskIds :
        (/\ subs[t].op = "frame_prompt"
         /\ exec[t].pc = "done"
         /\ "frames" \in DOMAIN exec[t]
         /\ exec[t].type = "panel"
         /\ exec[t].count = 3) =>
            /\ tasks[t].status = "completed"
            /\ Len(tasks[t].result.frames) = 3
            /\ [i \in 1..3 |-> tasks[t].result.frames[i].kind] = <<"first", "key", "last">>
            /\ [i \in 1..3 |-> tasks[t].result.frames[i].description[1]]
                  = <<"cell 1", "cell 2", "cell 3">>
            /\ \A r \in framePrompts :
                 (r.storyboard = exec[t].storyboard /\ r.type = "panel") =>
                     r.prompt = <<exec[t].frames[1].prompt, Separator, exec[t].frames[2].prompt,
                                  Separator, exec[t].frames[3].prompt>>

\* C10: when the lookup of the requested model fails and a default
\* configuration exists, the call is made with the default provider; an
\* executor stops at the generation step only when the provider call itself
\* returned an error, an image job is without client only when no
\* configuration exists at all, and no submitter is ever answered with a
\* lookup failure.
C10_ProviderFallback ==
    /\ \A t \in TaskIds :
         "call" \in DOMAIN exec[t] =>
            /\ (exec[t].call.lookup = "failed" /\ exec[t].call.defaultCfg) =>
                   exec[t].call.provider = "default"
            /\ ("failedAt" \in DOMAIN exec[t] /\ exec[t].failedAt = "generate") => exec[t].call.err
    /\ \A j \in ImageJobs :
         "client" \in DOMAIN imgExec[j] =>
            /\ imgExec[j].client.lookup = "failed" => imgExec[j].client.config \in {"default", "none"}
            /\ imgExec[j].ended = "no client" <=>
                   (imgExec[j].pc = "done" /\ imgExec[j].client.config = "none")
    /\ \A i \in TaskIds : subs[i].err \in SubmitErrors
    /\ \A j \in ImageJobs : imgSubs[j].err \in SubmitErrors

\* A character generation whose model lookup failed and that completed with
\* the default provider.
C10_Witness ==
    \E t \in TaskIds :
        /\ subs[t].op = "characters"
        /\ "call" \in DOMAIN exec[t]
        /\ exec[t].call.lookup = "failed"
        /\ exec[t].call.provider = "default"
        /\ ~exec[t].call.err
        /\ tasks[t].status = "completed"

StartPcs == {"c_start", "s_start", "f_start", "b_start"}

\* C11: a submission that returned a task id left the task pending with the
\* executor not yet started: while the executor stands before its first step
\* the task is pending, untouched by any update, and the caller already holds
\* its id. A submission never reports a provider failure: its error is one of
\* the validation or storage errors of the submit path, and an executor that
\* met a failed provider call belongs to a submission that returned no error.
C11_SubmitAsynchronous ==
    \A i \in TaskIds :
        subs[i].op \in TaskOps =>
            /\ subs[i].err \in SubmitErrors
            /\ exec[i].pc \in StartPcs =>
                   /\ subs[i].task = i /\ subs[i].err = ""
                   /\ tasks[i].status = "pending"
                   /\ tasks[i].progress = 0
                   /\ tasks[i].result = NoResult /\ tasks[i].error = ""
                   /\ issued[i] = <<>>
            /\ ("call" \in DOMAIN exec[i] /\ exec[i].call.err) =>
                   subs[i].task = i /\ subs[i].err = ""

\* A storyboard submission has returned its task id, the task is pending and
\* the executor has not made its first step.
C11_Witness ==
    \E i \in TaskIds :
        /\ subs[i].op = "storyboard" /\ subs[i].task = i /\ subs[i].err = ""
        /\ exec[i].pc = "s_start"
        /\ tasks[i].status = "pending"
        /\ issued[i] = <<>>

\* The provider call of an accepted storyboard submission failed afterwards and
\* the failure is the task's terminal state.
C11_WitnessLateFailure ==
    \E i \in TaskIds :
        /\ subs[i].op = "storyboard" /\ subs[i].err = ""
        /\ exec[i].pc = "done" /\ "call" \in DOMAIN exec[i] /\ exec[i].call.err
        /\ tasks[i].status = "failed"

\* The stored shots of the regenerated episode, as (id, shot number, duration).
RegenStored(rows) ==
    {[id |-> r.id, shot |-> r.shot, duration |-> r.duration] :
        r \in {x \in rows : x.episode = RegenEpisode}}

\* The batch of executor t as it is stored with first as the first fresh id.
RegenBatch(t, first) ==
    {[id |-> first + i - 1, shot |-> i, duration |-> exec[t].shots[i].duration] :
        i \in 1..Len(exec[t].shots)}

\* The step in which the replace transaction of executor t commits.
RegenCommits(t) ==
    /\ exec[t].pc = "s_save"
    /\ exec'[t].pc # "s_save"
    /\ exec'[t].saveErr = ""

PollStep(j) == imgExec[j].pc = "i_poll" /\ imgExec'[j] # imgExec[j]

\* C13: a status call that returned an error leaves the loop running, one
\* attempt further; while attempts are left the loop's next step is another
\* status call; the loop ends only on a result reported completed, on a result
\* with a non-empty error string, or (with no further call) when 60 calls have
\* been made; and it never makes more than 60 calls.
C13_PollLoop ==
    [][\A j \in ImageJobs :
          PollStep(j) =>
            LET now == imgExec[j]
                next == imgExec'[j]
                called == next.calls = now.calls + 1
            IN  /\ next.calls <= MaxAttempts
                /\ (called /\ next.last = "error") =>
                       /\ next.pc = "i_poll"
                       /\ next.i = now.i + 1
                       /\ next.ended = ""
                /\ now.i < MaxAttempts => called
                /\ next.pc = "i_poll" => called /\ next.last \in {"error", "result"}
                /\ next.pc # "i_poll" =>
                       /\ next.pc = "done"
                       /\ \/ /\ next.ended = "completed"
                             /\ called /\ next.last = "result" /\ next.result.completed
                          \/ /\ next.ended = "error"
                             /\ called /\ next.last = "result"
                             /\ ~next.result.completed /\ next.result.error # ""
                          \/ /\ next.ended = "timeout"
                             /\ ~called /\ now.calls = MaxAttempts]_vars

\* A loop that went on after status calls that returned errors and then was
\* ended by a provider's error string.
C13_Witness ==
    \E j \in ImageJobs :
        /\ imgExec[j].pc = "done" /\ imgExec[j].async
        /\ imgExec[j].ended = "error"
        /\ imgExec[j].calls = 3
        /\ imgExec[j].result.error = "provider error"

\* The loop is running and its last status call returned an error.
C13_WitnessRetry ==
    \E j \in ImageJobs :
        /\ imgExec[j].pc = "i_poll" /\ imgExec[j].last = "error" /\ imgExec[j].calls = 59

\* C14: a round of the poll loop that does not end it changes no image
\* record, storyboard, scene or character; the step that ends it is one
\* finalize step (completeImageGeneration or updateImageGenError), and after
\* it the job does nothing more.
C14_PollPersistsNothing ==
    [][\A j \in ImageJobs :
          /\ (PollStep(j) /\ imgExec'[j].pc = "i_poll") =>
                 /\ imageGens' = imageGens
                 /\ storyboards' = storyboards
                 /\ scenes' = scenes
                 /\ characters' = characters
          /\ (PollStep(j) /\ imgExec'[j].pc # "i_poll") =>
                 /\ imgExec'[j].pc = "done"
                 /\ LET id == imgExec[j].id
                        written == [ig |-> imageGens', sb |-> storyboards', sc |-> scenes',
                                    ch |-> characters']
                    IN  \/ /\ imgExec'[j].ended = "completed"
                           /\ written = completeImageGeneration(ImageTables, id, imgExec'[j].result,
                                                             imgExec'[j].cache, imgExec'[j].wrote)
                        \/ /\ imgExec'[j].ended = "error"
                           /\ written = updateImageGenError(ImageTables, id, imgExec'[j].result.error)
                        \/ /\ imgExec'[j].ended = "timeout"
                           /\ written = updateImageGenError(ImageTables, id, TimeoutMessage)
          /\ (imgExec[j].pc = "done" /\ imgExec[j].async) => imgExec'[j] = imgExec[j]]_vars

\* A poll loop made several status calls before its finalize step completed
\* the record; until then the record was processing.
C14_Witness ==
    \E j \in ImageJobs :
        /\ imgExec[j].pc = "done" /\ imgExec[j].async
        /\ imgExec[j].ended = "completed"
        /\ imgExec[j].calls = 4
        /\ imgExec[j].before.status = "processing"
        /\ ImageExists(imgExec[j].id)
        /\ ImageRow(imgExec[j].id).status = "completed"

\* The local paths the cache can hold.
LocalPaths == {LocalPath(u) : u \in ProviderUrls}

\* C15: in the step in which completeImageGeneration runs, what is stored is
\* the same for every outcome of the download to the local storage (skipped,
\* saved, failed): the record, if it still exists, is completed and its
\* image_url is the provider's address; the linked storyboard, scene (for
\* image type scene) and character whose update succeeded carry that address
\* too; and no row carries a path of the local storage.
C15_CacheNeverStored ==
    [][\A j \in ImageJobs :
          (/\ imgExec[j].pc \in {"i_generate", "i_poll"}
           /\ imgExec'[j].pc = "done"
           /\ imgExec'[j].ended = "completed") =>
            LET id == imgExec[j].id
                result == imgExec'[j].result
                wrote == imgExec'[j].wrote
                written == [ig |-> imageGens', sb |-> storyboards', sc |-> scenes',
                            ch |-> characters']
            IN  /\ imgExec'[j].cache \in CacheOutcomes(result.url)
                /\ \A cache \in CacheOutcomes("http://u7") :
                       written = completeImageGeneration(ImageTables, id, result, cache, wrote)
                /\ ImageExists(id) =>
                     LET rec == ImageRow(id) IN
                     /\ \A g \in imageGens' :
                            g.id = id => g.status = "completed" /\ g.url = result.url
                     /\ result.url \in ProviderUrls
                     /\ \A r \in storyboards' :
                            (r.id = rec.storyboard /\ wrote.sb) => r.composed = result.url
                     /\ \A r \in scenes' :
                            (r.id = rec.scene /\ rec.type = "scene" /\ wrote.sc) =>
                                r.url = result.url /\ r.status = "generated"
                     /\ \A r \in characters' :
                            (r.id = rec.character /\ wrote.ch) => r.image = result.url
                /\ \A g \in imageGens' : g.url \notin LocalPaths
                /\ \A r \in storyboards' : r.composed \notin LocalPaths
                /\ \A r \in scenes' : r.url \notin LocalPaths
                /\ \A r \in characters' : r.image \notin LocalPaths]_vars

\* A completed generation whose picture was downloaded to the local storage:
\* the record and its storyboard carry the provider's address.
C15_Witness ==
    \E j \in ImageJobs :
        /\ imgExec[j].pc = "done" /\ imgExec[j].ended = "completed"
        /\ imgExec[j].cache = [outcome |-> "saved", path |-> "images/u7"]
        /\ ImageExists(imgExec[j].id)
        /\ ImageRow(imgExec[j].id).url = "http://u7"
        /\ ImageRow(imgExec[j].id).storyboard = 1
        /\ \E r \in storyboards : r.id = 1 /\ r.composed = "http://u7"

\* A completed generation whose download failed, and one whose address is a
\* data URI so that the download was skipped.
C15_WitnessFailedOrSkipped ==
    \E j \in ImageJobs :
        /\ imgExec[j].pc = "done" /\ imgExec[j].ended = "completed"
        /\ ImageExists(imgExec[j].id)
        /\ \/ imgExec[j].cache.outcome = "failed" /\ ImageRow(imgExec[j].id).url = "http://u7"
           \/ imgExec[j].cache.outcome = "skipped" /\ ImageRow(imgExec[j].id).url = "data:u8"

\* The same shots answered as a bare array.
AsArray(text) == [shape |-> "array", shots |-> text.shots, total |-> 0]

\* The shots stored for episode e, as (shot number, duration).
StoredShots(e) ==
    {[shot |-> r.shot, duration |-> r.duration] : r \in {x \in storyboards : x.episode = e}}

\* No other storyboard generation was accepted for the episode of executor t.
OnlyWriter(t) ==
    \A u \in TaskIds \ {t} :
        ~(subs[u].op = "storyboard" /\ subs[u].task = u /\ exec[u].episode = exec[t].episode)

\* C16: an answer that is an object carrying shots, whatever total it states,
\* is parsed to the same shots and the same total as the bare array of those
\* shots; the executor goes on with exactly these, the task's result carries
\* them, and the rows stored for the episode (when no other generation
\* writes them) are these shots in order.
C16_ShapeInvariance ==
    \A t \in TaskIds :
        (subs[t].op = "storyboard" /\ "shots" \in DOMAIN exec[t]) =>
            LET text == exec[t].text
                shots == text.shots
            IN  /\ ParseStoryboards(text) = ParseStoryboards(AsArray(text))
                /\ exec[t].shots = shots
                /\ exec[t].total = Len(shots)
                /\ exec[t].totalDuration = SumDurations(shots, 1)
                /\ tasks[t].status = "completed" =>
                     /\ tasks[t].result.storyboards = shots
                     /\ tasks[t].result.total = Len(shots)
                     /\ tasks[t].result.total_duration = SumDurations(shots, 1)
                     /\ OnlyWriter(t) =>
                            StoredShots(exec[t].episode) =
                               {[shot |-> i, duration |-> shots[i].duration] : i \in 1..Len(shots)}

\* A task completed from an object that states a total of 7 and carries two
\* shots: the result's total is 2.
C16_Witness ==
    \E t \in TaskIds :
        /\ subs[t].op = "storyboard"
        /\ tasks[t].status = "completed"
        /\ exec[t].text.shape = "object"
        /\ exec[t].text.total = 7
        /\ Len(exec[t].text.shots) = 2
        /\ tasks[t].result.total = 2

\* The single-frame executors that ended after their frame was made by the
\* fallback (the provider call failed or its answer could not be parsed).
FellBack(t) ==
    /\ subs[t].op = "frame_prompt"
    /\ exec[t].pc = "done"
    /\ "frames" \in DOMAIN exec[t]
    /\ exec[t].type \in {"first", "key", "last"}
    /\ exec[t].frames[1].source = "fallback"

\* The fallback prompt of such an executor is the scene's location and time
\* (when the shot has a scene that exists), the characters' names, the
\* atmosphere (when the shot has one), "anime style" and the type's suffix.
FallbackContent(t) ==
    LET sb == exec[t].sb
        scene == exec[t].scene
        suffix == IF exec[t].type = "first" THEN "first frame, static shot"
                  ELSE IF exec[t].type = "key" THEN "key frame, dynamic action"
                  ELSE "last frame, final state"
        prompt == exec[t].frames[1].prompt
        n == Len(prompt)
    IN  /\ n >= 2
        /\ prompt[n] = suffix
        /\ prompt[n - 1] = "anime style"
        /\ SubSeq(prompt, 1, n - 2) =
              (IF scene # NoScene THEN <<scene.location, scene.time>> ELSE <<>>)
                  \o CharacterNames(sb.chars) \o sb.atmosphere

\* C17: a first, key or last frame request whose provider call failed or
\* whose answer could not be parsed ends with the fallback prompt as its
\* frame, the frame prompt record saved with that prompt, and the task
\* completed.
C17_FallbackCompletes ==
    \A t \in TaskIds :
        FellBack(t) =>
            /\ FallbackContent(t)
            /\ \E r \in framePrompts :
                   /\ r.storyboard = exec[t].storyboard
                   /\ r.type = exec[t].type
                   /\ r.prompt = exec[t].frames[1].prompt
            /\ tasks[t].status = "completed"

\* The storyboard executor t has returned after its provider call failed, or
\* after an answer that is neither an array nor an object with storyboards.
NoBatch(t) ==
    /\ subs[t].op = "storyboard"
    /\ exec[t].pc = "done"
    /\ \/ "failedAt" \in DOMAIN exec[t] /\ exec[t].failedAt = "generate"
       \/ "text" \in DOMAIN exec[t] /\ exec[t].text.shape = "garbage"

\* What a storyboard generation without a batch must leave alone.
NoBatchUntouched ==
    /\ storyboards = InitialStoryboards
    /\ imageGens = InitialImageGens
    /\ episodes = InitialEpisodes

\* C18: a storyboard generation whose provider call failed or whose answer
\* parsed in neither shape ends with the task failed with an error, and the
\* storyboards, the image generations' back-references and the episodes'
\* durations are as before.
C18_NoFallback ==
    \A t \in TaskIds :
        NoBatch(t) =>
            /\ tasks[t].status = "failed"
            /\ tasks[t].error # ""
            /\ NoBatchUntouched

\* The largest sum of durations a batch can have, in either direction.
MaxSum == 61 * MaxItems

\* Seconds to minutes rounded up: the smallest m with 60 * m >= seconds.
CeilMinutes(seconds) ==
    CHOOSE m \in -MaxSum..MaxSum :
        /\ 60 * m >= seconds
        /\ \A k \in -MaxSum..MaxSum : 60 * k >= seconds => m <= k

\* C19: when a storyboard generation has completed, the result's
\* total_duration is the sum of the durations of the batch's shots and the
\* episode's stored duration is that sum in minutes rounded up.
C19_DurationRoundedUp ==
    \A t \in TaskIds :
        (subs[t].op = "storyboard" /\ tasks[t].status = "completed") =>
            LET shots == tasks[t].result.storyboards
                sum == SumDurations(shots, 1)
            IN  /\ tasks[t].result.total_duration = sum
                /\ episodes[exec[t].episode].duration = CeilMinutes(sum)

\* The backgrounds of a finished extraction that list the shot with this id.
BackgroundsOf(id) ==
    {bg \in exec[1].backgrounds : \E k \in 1..Len(bg.SceneIDs) : bg.SceneIDs[k] = id}

\* C20: in the result of extractUniqueBackgrounds two shots that have a
\* location and a time are listed under the same background exactly when
\* their locations are equal and their times are equal; a shot that lacks a
\* location or a time is listed nowhere; every other shot's id is listed in
\* exactly one background, once; and each background's StoryboardCount is the
\* number of its SceneIDs.
C20_UniqueBackgrounds ==
    exec[1].pc = "x_done" =>
        LET list == exec[1].scenes
            counted == {i \in 1..Len(list) : list[i].location # <<>> /\ list[i].time # <<>>}
        IN  /\ \A i, j \in counted :
                   (BackgroundsOf(list[i].id) = BackgroundsOf(list[j].id))
                       <=> (/\ list[i].location = list[j].location
                            /\ list[i].time = list[j].time)
            /\ \A i \in (1..Len(list)) \ counted : BackgroundsOf(list[i].id) = {}
            /\ \A i \in counted :
                   /\ Cardinality(BackgroundsOf(list[i].id)) = 1
                   /\ \A bg \in BackgroundsOf(list[i].id) :
                          Cardinality({k \in 1..Len(bg.SceneIDs) : bg.SceneIDs[k] = list[i].id}) = 1
            /\ \A bg \in exec[1].backgrounds : bg.StoryboardCount = Len(bg.SceneIDs)

(* ---------------------------------- C21 --------------------------------- *)

\* C21: a job's inputs are fixed at submission: the storyboard (with its
\* characters) that the frame prompt executor builds its prompts from is the
\* storyboard as it was when GenerateFramePrompt read it, whatever was
\* changed after the submission returned.
C21_InputsFixedAtSubmit ==
    \A t \in TaskIds :
        (subs[t].op = "frame_prompt" /\ exec[t].pc = "f_frames") => exec[t].sb = exec[t].seen

(* ---------------------------------- C22 --------------------------------- *)

\* The ways ProcessImageGeneration ends before a provider result exists, and
\* the message each stores.
StartFailures == {"no client", "call failed"}

StartFailureMessage(ended) ==
    IF ended = "no client" THEN "no image AI config found" ELSE "generate failed"

\* The address columns of the tables an image can be written to.
ImageAddresses ==
    [ig |-> {<<g.id, g.url>> : g \in imageGens},
     sb |-> {<<r.id, r.composed>> : r \in storyboards},
     sc |-> {<<r.id, r.url>> : r \in scenes},
     ch |-> {<<c.id, c.image>> : c \in characters}]

\* C22: when no configuration can be resolved or the generate call returns an
\* error, the job ends there: the record (if it still exists) is failed with
\* the error message stored and without an address, no status call is ever
\* made, and the step writes no address to any image record, storyboard,
\* scene or character.
C22_StartFailure ==
    /\ [](\A j \in ImageJobs :
            ("ended" \in DOMAIN imgExec[j] /\ imgExec[j].ended \in StartFailures) =>
                /\ imgExec[j].pc = "done"
                /\ imgExec[j].calls = 0
                /\ ~imgExec[j].async
                /\ (imgExec[j].ended = "no client") <=> (imgExec[j].client.config = "none")
                /\ ImageExists(imgExec[j].id) =>
                     /\ ImageRow(imgExec[j].id).status = "failed"
                     /\ ImageRow(imgExec[j].id).error = StartFailureMessage(imgExec[j].ended)
                     /\ ImageRow(imgExec[j].id).url = "")
    /\ [][\A j \in ImageJobs :
            (imgExec[j].pc = "i_generate" /\ imgExec'[j].ended \in StartFailures) =>
                ImageAddresses' = ImageAddresses]_vars

\* A generation for a scene whose model had no configuration and no default
\* existed: the record is failed with the message.
C22_Witness ==
    \E j \in ImageJobs :
        /\ "ended" \in DOMAIN imgExec[j]
        /\ imgExec[j].ended = "no client"
        /\ imgExec[j].client.lookup = "failed"
        /\ ImageExists(imgExec[j].id)
        /\ ImageRow(imgExec[j].id).scene # 0
        /\ ImageRow(imgExec[j].id).error = "no image AI config found"

\* A generation whose provider call returned an error.
C22_WitnessCallFailed ==
    \E j \in ImageJobs :
        /\ "ended" \in DOMAIN imgExec[j]
        /\ imgExec[j].ended = "call failed"
        /\ ImageExists(imgExec[j].id)
        /\ ImageRow(imgExec[j].id).status = "failed"
        /\ ImageRow(imgExec[j].id).error = "generate failed"

(* ---------------------------------- C23 --------------------------------- *)

\* The adapter and endpoint the mapping gives a provider name.
AdapterOf(name) ==
    IF name \in {"volcengine", "volces", "doubao"} THEN "VolcEngine"
    ELSE IF name \in {"gemini", "google"} THEN "Gemini"
    ELSE "OpenAI"

EndpointOf(name) ==
    IF name \in {"gemini", "google"} THEN "/v1beta/models/{model}:generateContent"
    ELSE "/images/generations"

\* The configuration each function resolved, and the name it switches on.
ResolvedFor(which) ==
    IF which = "plain" THEN exec[1].default
    ELSE ResolveConfig(exec[1].specified, exec[1].default, exec[1].modelName)

NameFor(which) ==
    IF ResolvedFor(which).provider = "" THEN exec[1].provider ELSE ResolvedFor(which).provider

\* C23: whenever a configuration was resolved, the client either function
\* builds is determined by the provider name alone (the configuration's, or
\* the request's when the configuration's is empty): the VolcEngine client for
\* volcengine, volces and doubao, the Gemini client with the generateContent
\* endpoint for gemini and google, the OpenAI-compatible client with
\* /images/generations for every other name; no name is an error; and the two
\* functions give the same adapter and endpoint for the same name.
C23_ClientMapping ==
    exec[1].pc = "k_clients" =>
        /\ \A which \in {"plain", "withModel"} :
             LET out == exec[1][which] IN
             out # NoAdapter =>
                /\ (out.err # "") <=> ~ResolvedFor(which).found
                /\ out.err = "" =>
                     /\ out.actual = NameFor(which)
                     /\ out.adapter = AdapterOf(out.actual)
                     /\ out.endpoint = EndpointOf(out.actual)
        /\ (/\ exec[1].plain.err = "" /\ exec[1].withModel.err = ""
            /\ exec[1].plain.actual = exec[1].withModel.actual) =>
                /\ exec[1].plain.adapter = exec[1].withModel.adapter
                /\ exec[1].plain.endpoint = exec[1].withModel.endpoint

\* Both functions were called with a configuration that names no provider and
\* a request for google: both built the Gemini client.
C23_Witness ==
    /\ exec[1].pc = "k_clients"
    /\ exec[1].plain.err = "" /\ exec[1].withModel.err = ""
    /\ exec[1].default.provider = "" /\ exec[1].modelName = ""
    /\ exec[1].provider = "google"
    /\ exec[1].plain.adapter = "Gemini" /\ exec[1].withModel.adapter = "Gemini"

\* A name the switch does not know gave the OpenAI-compatible client.
C23_WitnessUnknown ==
    /\ exec[1].pc = "k_clients"
    /\ exec[1].withModel.err = ""
    /\ exec[1].withModel.actual = "stability"
    /\ exec[1].withModel.adapter = "OpenAI"

(* ---------------------------------- C29 --------------------------------- *)

\* C29: when the requested model has no configuration and the default
\* configuration is used, what the adapter is given is the default
\* configuration's: its provider name (the request's when it names none), its
\* base endpoint, its credential, and its model name (the first of its
\* models, none when it lists none).
C29_DefaultSettings ==
    (/\ exec[1].pc = "k_clients"
     /\ exec[1].modelName # "" /\ ~exec[1].specified.found
     /\ exec[1].withModel.err = "") =>
        LET out == exec[1].withModel
            default == exec[1].default
        IN  /\ out.actual = (IF default.provider = "" THEN exec[1].provider ELSE default.provider)
            /\ out.baseURL = default.baseURL
            /\ out.apiKey = default.apiKey
            /\ out.model = (IF Len(default.models) > 0 THEN default.models[1] ELSE "")

(* ---------------------------------- C24 --------------------------------- *)

\* The Character rows a character generation inserted.
MadeBy(t) == {c.id : c \in {x \in characters : x.by = t}}

\* C24: the batch write of a character generation is all or nothing: once
\* the executor is past its writes, either it inserted no row, or every name
\* of the batch has its row and (when an existing episode was named) every
\* row it inserted is attached to that episode.
C24_BatchAtomic ==
    \A t \in TaskIds :
        (subs[t].op = "characters" /\ exec[t].pc \in {"c_result", "done"}
                                   /\ "names" \in DOMAIN exec[t]) =>
            \/ MadeBy(t) = {}
            \/ /\ \A i \in 1..Len(exec[t].names) :
                    \E c \in characters : c.drama = exec[t].req.drama /\ c.name = exec[t].names[i]
               /\ (exec[t].req.episode > 0 /\ episodes[exec[t].req.episode].exists) =>
                    \A c \in MadeBy(t) : <<exec[t].req.episode, c>> \in epChars

(* ---------------------------------- C25 --------------------------------- *)

\* A step of the image pipeline of job j.
PipelineStep(j) ==
    /\ "pc" \in DOMAIN imgExec[j]
    /\ imgExec[j].pc \in {"i_start", "i_generate", "i_poll"}
    /\ imgExec'[j] # imgExec[j]

\* The rows of a table other than the one with the given id.
OtherRows(table, id) == {r \in table : r.id # id}

\* C25: a step of the image pipeline changes, apart from its own record, at
\* most the storyboard whose id is the record's storyboard id, the scene
\* whose id is its scene id and the character whose id is its character id;
\* every other row stays as it is (and no row at all changes when the record
\* no longer exists).
C25_PipelineFrame ==
    [][\A j \in ImageJobs :
          PipelineStep(j) =>
            IF ~ImageExists(imgExec[j].id)
            THEN UNCHANGED <<imageGens, storyboards, scenes, characters>>
            ELSE LET rec == ImageRow(imgExec[j].id)
                 IN  /\ OtherRows(imageGens, rec.id) \subseteq imageGens'
                     /\ OtherRows(storyboards, rec.storyboard) \subseteq storyboards'
                     /\ OtherRows(scenes, rec.scene) \subseteq scenes'
                     /\ OtherRows(characters, rec.character) \subseteq characters']_vars

(* ---------------------------------- C26 --------------------------------- *)

\* The background unit of slot t is running.
Running(t) == exec[t].pc \notin {"none", "done"}

\* C26: every task has one owning executor. A task exists exactly when a
\* submission returned its id and exactly when a unit was started for it; the
\* step that creates a task is the submission that starts its unit, with the
\* task pending; every later write of the task's record is a step of that
\* unit, in which no other unit moves and no submission is answered; and a
\* task that reached completed or failed is never written again.
C26_SingleOwner ==
    /\ [](\A t \in TaskIds :
            /\ (tasks[t].status # "none") <=> (subs[t].task = t)
            /\ (tasks[t].status # "none") <=> (exec[t].pc # "none"))
    /\ [][\A t \in TaskIds :
            tasks'[t] # tasks[t] =>
              IF tasks[t].status = "none"
              THEN /\ subs[t].op = "none" /\ subs'[t].task = t
                   /\ exec[t] = Idle /\ exec'[t].pc \in StartPcs
                   /\ tasks'[t].status = "pending"
                   /\ \A u \in TaskIds \ {t} : exec'[u] = exec[u] /\ tasks'[u] = tasks[u]
              ELSE /\ Running(t)
                   /\ exec'[t] # exec[t]
                   /\ tasks[t].status \notin Terminal
                   /\ subs' = subs
                   /\ \A u \in TaskIds \ {t} : exec'[u] = exec[u] /\ tasks'[u] = tasks[u]]_vars

\* Two executors of different orchestrators have each brought their own task
\* to its end while the other was running or done.
C26_Witness ==
    /\ subs[1].op = "storyboard" /\ subs[2].op = "frame_prompt"
    /\ tasks[1].status = "failed" /\ tasks[2].status = "completed"
    /\ exec[1].pc = "done" /\ exec[2].pc = "done"

(* ---------------------------------- C27 --------------------------------- *)

\* C27: the step in which saveStoryboards succeeds has a non-empty batch and
\* leaves as the episode's storyboards exactly one row per shot of the batch,
\* in the batch's order and with its durations; none of the rows the episode
\* had before remains; and no image generation references a storyboard the
\* step deleted.
C27_ReplaceExact ==
    [][\A t \in TaskIds :
          RegenCommits(t) =>
            LET ep == exec[t].episode
                batch == exec[t].shots
                old == {r \in storyboards : r.episode = ep}
                new == {r \in storyboards' : r.episode = ep}
            IN  /\ Len(batch) > 0
                /\ Cardinality(new) = Len(batch)
                /\ \A i \in 1..Len(batch) :
                     \E r \in new : r.shot = i /\ r.duration = batch[i].duration
                /\ new \cap old = {}
                /\ {r.id : r \in new} \cap {r.id : r \in old} = {}
                /\ \A g \in imageGens' : g.storyboard \notin {r.id : r \in old}
                /\ {r \in storyboards' : r.episode # ep} = {r \in storyboards : r.episode # ep}]_vars

\* A regeneration of episode 2 has committed a batch of two shots: storyboard
\* 3 is gone and the image generation that referenced it references nothing.
C27_Witness ==
    \E t \in TaskIds :
        /\ subs[t].op = "storyboard" /\ "saveErr" \in DOMAIN exec[t]
        /\ exec[t].pc \in {"s_duration", "done"} /\ exec[t].saveErr = ""
        /\ exec[t].episode = 2 /\ Len(exec[t].shots) = 2
        /\ ~(\E r \in storyboards : r.id = 3)
        /\ \E g \in imageGens : g.id = 2 /\ g.storyboard = 0

(* ---------------------------------- C28 --------------------------------- *)

\* The kinds of the frames executor t composed, in order.
FrameKinds(t) == [i \in 1..Len(exec[t].frames) |-> exec[t].frames[i].kind]

\* C28: when a panel or action generation has composed its frames, a panel
\* has 3 or 4 of them and an action sequence 5; every frame is the output of
\* a single-frame generation, in the order first, key, ..., last; and the
\* stored record's prompt is the frames' prompts joined by the separator in
\* that order.  A panel requested with count 0 is planned with 3 frames.
C28_MultiFrame ==
    /\ [](\A t \in TaskIds :
            (/\ subs[t].op = "frame_prompt" /\ exec[t].pc = "done"
             /\ "frames" \in DOMAIN exec[t] /\ exec[t].type \in {"panel", "action"}) =>
                LET n == Len(exec[t].frames) IN
                /\ exec[t].type = "panel" => n \in {3, 4}
                /\ exec[t].type = "action" => n = 5
                /\ FrameKinds(t) = [i \in 1..n |-> IF i = 1 THEN "first"
                                                   ELSE IF i = n THEN "last" ELSE "key"]
                /\ \A i \in 1..n : exec[t].frames[i].source \in {"ai", "fallback"}
                /\ \A r \in framePrompts :
                     (r.storyboard = exec[t].storyboard /\ r.type = exec[t].type) =>
                        r.prompt = Join([i \in 1..n |-> exec[t].frames[i].prompt], Separator))
    /\ [][\A t \in TaskIds :
            (/\ exec[t].pc = "f_load" /\ exec'[t].pc = "f_frames"
             /\ exec[t].type = "panel" /\ exec[t].count = 0) => Len(exec'[t].plan) = 3]_vars

(* ---------------------------------- C30 --------------------------------- *)

\* The step in which executor t runs the insert of saveFramePrompt and
\* reports its result.
SavesFramePrompt(t) ==
    /\ exec[t].pc = "f_insert"
    /\ exec'[t].pc = "done"

\* C30: when the insert of saveFramePrompt fails (no new row, no key used),
\* the frame prompt stored before for that storyboard and frame type is
\* still there after the call.
C30_PriorPromptKept ==
    [][\A t \in TaskIds :
          (SavesFramePrompt(t) /\ nextFpId' = nextFpId) =>
              exec[t].old \subseteq framePrompts']_vars

(* ---------------------------------- C31 --------------------------------- *)

\* The step in which executor t finds that the name it looks up exists.
FindsExisting(t) ==
    /\ exec[t].pc = "c_lookup"
    /\ exec[t].i <= Len(exec[t].names)
    /\ \E c \in characters : c.drama = exec[t].req.drama /\ c.name = exec[t].names[exec[t].i]
    /\ exec'[t] # exec[t]

\* The characters executor t used as they were, not inserted by it.
ReusedBy(t) == {id \in Range(exec[t].chars) : id \notin MadeBy(t)}

GenerateStep(j) ==
    /\ "pc" \in DOMAIN imgExec[j]
    /\ imgExec[j].pc = "i_generate"
    /\ imgExec'[j] # imgExec[j]

\* C32: a generate call that returns a completed result is finalized in the
\* same step by completeImageGeneration, with no status call made and the job
\* at its end; the poll loop runs only for jobs whose first result was not
\* completed; and a job finalized this way does nothing afterwards.
C32_Synchronous ==
    /\ [][\A j \in ImageJobs :
            /\ (GenerateStep(j) /\ imgExec'[j].result.completed) =>
                  /\ imgExec'[j].pc = "done"
                  /\ imgExec'[j].ended = "completed"
                  /\ ~imgExec'[j].async
                  /\ imgExec'[j].calls = 0
                  /\ [ig |-> imageGens', sb |-> storyboards', sc |-> scenes', ch |-> characters']
                        = completeImageGeneration(ImageTables, imgExec[j].id, imgExec'[j].result,
                                                  imgExec'[j].cache, imgExec'[j].wrote)
            /\ (GenerateStep(j) /\ imgExec'[j].pc = "i_poll") =>
                  imgExec'[j].async /\ ~imgExec'[j].result.completed
            /\ ("pc" \in DOMAIN imgExec[j] /\ imgExec[j].pc = "done" /\ ~imgExec[j].async) =>
                  imgExec'[j] = imgExec[j]]_vars
    /\ [](\A j \in ImageJobs :
            ("async" \in DOMAIN imgExec[j] /\ ~imgExec[j].async) =>
                imgExec[j].calls = 0 /\ imgExec[j].pc # "i_poll")

\* A generation whose first call was completed: its record is completed with
\* the provider's address and no status call was made.
C32_Witness ==
    \E j \in ImageJobs :
        /\ "async" \in DOMAIN imgExec[j]
        /\ imgExec[j].pc = "done" /\ ~imgExec[j].async /\ imgExec[j].ended = "completed"
        /\ imgExec[j].calls = 0
        /\ ImageExists(imgExec[j].id)
        /\ ImageRow(imgExec[j].id).status = "completed"
        /\ ImageRow(imgExec[j].id).url = imgExec[j].result.url

(* ---------------------------------- C33 --------------------------------- *)

\* The statuses an image record may have after one step, given its status
\* before it.
StatusAfter(status) ==
    IF status = "pending" THEN {"pending", "processing"}
    ELSE IF status = "processing" THEN {"processing", "completed", "failed"}
    ELSE {status}

\* How a job that loaded its record can end, and the function that ends it.
FinalizedBy(ended) ==
    IF ended = "completed" THEN "completeImageGeneration"
    ELSE IF ended \in {"error", "timeout", "no client", "call failed"} THEN "updateImageGenError"
    ELSE "none"

\* C33: a record is created pending; in every step its status stays or moves
\* pending -> processing -> completed or failed, so a completed or failed
\* record keeps its status and no record returns to pending; a job ends in
\* the one step in which one of completeImageGeneration and
\* updateImageGenError runs, the record (if it still exists) is then
\* completed or failed accordingly, and the job does nothing afterwards.
C33_RecordLifecycle ==
    /\ [][/\ \A g \in imageGens' :
               IF \E h \in imageGens : h.id = g.id
               THEN g.status \in StatusAfter((CHOOSE h \in imageGens : h.id = g.id).status)
               ELSE g.status = "pending"
          /\ \A j \in ImageJobs :
               /\ (PipelineStep(j) /\ imgExec'[j].pc = "done" /\ ImageExists(imgExec[j].id)) =>
                     /\ FinalizedBy(imgExec'[j].ended) # "none"
                     /\ imgExec[j].ended = ""
               /\ ("pc" \in DOMAIN imgExec[j] /\ imgExec[j].pc = "done") =>
                     imgExec'[j] = imgExec[j]]_vars
    /\ [](\A j \in ImageJobs :
            ("ended" \in DOMAIN imgExec[j] /\ ImageExists(imgExec[j].id)) =>
                LET status == ImageRow(imgExec[j].id).status IN
                /\ imgExec[j].pc # "done" => imgExec[j].ended = "" /\ status = "processing"
                /\ (imgExec[j].pc = "done" /\ imgExec[j].ended # "not loaded") =>
                      status = (IF FinalizedBy(imgExec[j].ended) = "completeImageGeneration"
                                THEN "completed" ELSE "failed"))

\* A record a request created went through the poll loop and ended failed by
\* the provider's error.
C33_Witness ==
    \E j \in ImageJobs :
        /\ "ended" \in DOMAIN imgExec[j]
        /\ imgExec[j].pc = "done" /\ imgExec[j].ended = "error" /\ imgExec[j].calls = 2
        /\ ImageExists(imgExec[j].id)
        /\ imgExec[j].id >= 3
        /\ ImageRow(imgExec[j].id).status = "failed"

(* ---------------------------------- C34 --------------------------------- *)

\* C34: once an image generation has reached its end, the Scene its first
\* step set to generating (the row whose id the update at line 162 names) is
\* no longer generating.
C34_NoSceneLeftGenerating ==
    \A j \in ImageJobs :
        (/\ "rec" \in DOMAIN imgExec[j] /\ imgExec[j].pc = "done"
         /\ imgExec[j].ended # "not loaded") =>
            \A r \in scenes : r.id = imgExec[j].rec.storyboard => r.status # "generating"

(* ---------------------------------- C35 --------------------------------- *)

\* C35: whatever the interleaving of character generations, no two Character
\* rows of one drama have the same name.
C35_UniqueNames ==
    \A c \in characters, d \in characters :
        (c.drama = d.drama /\ c.name = d.name) => c.id = d.id


(* ---------------------------------- C36 --------------------------------- *)

\* C36: whatever the interleaving of frame prompt generations, at most one
\* frame prompt row is stored for each storyboard and frame type.
C36_OnePromptPerPair ==
    \A sb \in StoryboardIds, type \in FrameTypes :
        Cardinality(OldFramePrompts(framePrompts, sb, type)) <= 1


(* ---------------------------------- C37 --------------------------------- *)

RECURSIVE StoredSeconds(_)
\* The sum of the durations of a set of storyboard rows.
StoredSeconds(rows) ==
    IF rows = {} THEN 0
    ELSE LET r == CHOOSE x \in rows : TRUE
         IN  r.duration + StoredSeconds(rows \ {r})

\* Every regeneration that was started has finished, each one having saved
\* its storyboards and written the duration.
AllRegenerated ==
    /\ \E t \in TaskIds : subs[t].op = "storyboard"
    /\ \A t \in TaskIds :
         subs[t].op = "storyboard" =>
            /\ exec[t].pc = "done" /\ "stored" \in DOMAIN exec[t]
            /\ exec[t].saveErr = "" /\ exec[t].stored

\* C37: once every storyboard regeneration of the episode has finished, the
\* episode's duration is the sum of the stored storyboards' durations,
\* rounded up to whole minutes.
C37_DurationMatchesStored ==
    (AllRegenerated /\ episodes[RegenEpisode].exists) =>
        episodes[RegenEpisode].duration =
            CeilMinutes(StoredSeconds({r \in storyboards : r.episode = RegenEpisode}))


(* ---------------------------------- C38 --------------------------------- *)

\* The step in which job j runs completeImageGeneration or
\* updateImageGenError.
FinalizeStep(j) ==
    /\ "pc" \in DOMAIN imgExec[j]
    /\ imgExec[j].pc \in {"i_generate", "i_poll"}
    /\ imgExec'[j].pc = "done"

C38_WitnessFailed ==
    \E j \in ImageJobs :
        /\ "pc" \in DOMAIN imgExec[j] /\ imgExec[j].pc = "done"
        /\ FinalizedBy(imgExec[j].ended) = "updateImageGenError"
        /\ imgExec[j].rec.id # 0 /\ imgExec[j].before.id = 0
        /\ ~ImageExists(imgExec[j].id)


(* ---------------------------------- C39 --------------------------------- *)

\* C39: the finalize step of a record that has a scene id but whose image
\* type is not scene leaves that Scene as it is, on success and on failure.
C39_SceneOnlyForSceneType ==
    [][\A j \in ImageJobs :
          (FinalizeStep(j) /\ ImageExists(imgExec[j].id)) =>
              LET rec == ImageRow(imgExec[j].id)
              IN  (rec.scene # 0 /\ rec.type # "scene") =>
                      \A r \in scenes : r.id = rec.scene => r \in scenes']_vars


(* ---------------------------------- C40 --------------------------------- *)

\* The step in which executor t runs the transaction of saveStoryboards.
StorySaveStep(t) ==
    /\ exec[t].pc = "s_save"
    /\ exec'[t].pc # "s_save"

\* The step in which executor t runs the transaction that replaces the scenes.
BgSaveStep(t) ==
    /\ exec[t].pc = "b_save"
    /\ exec'[t].pc # "b_save"

\* The rows of a table that belong to another episode than e.
OfOtherEpisodes(table, e) == {r \in table : r.episode # e}

\* C40: the step that saves the storyboards of episode E leaves the
\* storyboards of every other episode and all scenes as they are, and
\* changes an image record only by clearing a storyboard reference that
\* pointed to a storyboard of E; the step that saves the scenes extracted for
\* E leaves the scenes of every other episode, the storyboards and the image
\* records as they are.
C40_ReplaceOnlyOwnSubject ==
    [][\A t \in TaskIds :
          /\ StorySaveStep(t) =>
               LET e == exec[t].episode
                   ids == {r.id : r \in {x \in storyboards : x.episode = e}}
               IN  /\ OfOtherEpisodes(storyboards', e) = OfOtherEpisodes(storyboards, e)
                   /\ scenes' = scenes
                   /\ {g.id : g \in imageGens'} = {g.id : g \in imageGens}
                   /\ \A g \in imageGens :
                        \/ g \in imageGens'
                        \/ /\ g.storyboard \in ids
                           /\ [g EXCEPT !.storyboard = 0] \in imageGens'
          /\ BgSaveStep(t) =>
               /\ OfOtherEpisodes(scenes', exec[t].episode) = OfOtherEpisodes(scenes, exec[t].episode)
               /\ storyboards' = storyboards
               /\ imageGens' = imageGens]_vars

\* Storyboards were replaced for one episode, whose old rows are gone and
\* whose image lost its reference, while another episode still has its
\* storyboard and its image's reference.
C40_Witness ==
    \E t \in TaskIds :
        /\ subs[t].op = "storyboard" /\ exec[t].pc \in {"s_duration", "done"}
        /\ "saveErr" \in DOMAIN exec[t] /\ exec[t].saveErr = ""
        /\ \A r \in InitialStoryboards : r \in storyboards <=> r.episode # exec[t].episode
        /\ \E g \in InitialImageGens : g \notin imageGens
        /\ \E g \in InitialImageGens : g \in imageGens

\* Scenes were replaced for one episode while another episode's scene stays.
C40_WitnessScenes ==
    \E t \in TaskIds :
        /\ exec[t].pc = "done" /\ "backgrounds" \in DOMAIN exec[t]
        /\ "saveErr" \in DOMAIN exec[t] /\ exec[t].saveErr = ""
        /\ \A r \in InitialScenes : r \in scenes <=> r.episode # exec[t].episode
        /\ \E r \in scenes : r \notin InitialScenes

====
